---- MODULE Spec2Model ----
(***************************************************************************)
(* Dynamic quantization-aware convolution operators of mmrazor (cobits):   *)
(*   mmrazor/models/architectures/dynamic_qops/dynamic_qconv_fused.py      *)
(*   mmrazor/structures/quantization/backend_config/                       *)
(*       common_operator_config_utils.py, weightonly.py                    *)
(*   mmrazor/models/task_modules/estimators/counters/op_counters/          *)
(*       norm_layer_counter.py                                             *)
(*   mmrazor/engine/runner/subnet_export_val_loop.py                       *)
(*   mmrazor/models/utils/quantization_util.py                             *)
(*                                                                         *)
(* Tensors are modelled by their shapes and by integer entries.  A conv    *)
(* weight of shape [out, in/groups, kh, kw] is a sequence of rows, each a  *)
(* sequence of integers (the centre tap of the kh x kw kernel, which is    *)
(* the only tap that meets a 1 x 1 input under "same" padding), together   *)
(* with the kernel_size <<kh, kw>> of the module.  Standard deviations are *)
(* carried by their squares (variance + eps), so that no root is taken     *)
(* except of the perfect squares the running variance is drawn from.       *)
(***************************************************************************)
EXTENDS Integers, Sequences, FiniteSets, TLC

VARIABLES
    qconv,     \* the dynamic QAT conv module (DynamicQConvBn2d / BnReLU2d / ReLU2d)
    last,      \* what the last call on qconv did and returned
    backend,   \* BackendConfig being built by get_weightonly_backend_config
    fused,     \* outcome of the last fuser-method call
    norm,      \* a normalization layer with its __flops__ / __params__ counters
    hook,      \* what the last add_count_hook call was given and did
    loop,      \* the SubnetExportValLoop and the calls its last method made
    imported,  \* the last str2class call: its argument and its outcome
    bn_class_map,  \* the module-level dict _BN_CLASS_MAP
    frames,    \* the open `with substitute_bn_class_map():` blocks, innermost last
    mutables,  \* the mutable-channel objects, by identity
    floats,    \* a float module and the QAT module from_float made of it
    tree       \* a module tree: its modules by identity and the child dict d

vars == <<qconv, last, backend, fused, norm, hook, loop, imported,
          bn_class_map, frames, mutables, floats, tree>>

convVars == <<qconv, last>>
quantVars == <<backend, fused>>
counterVars == <<norm, hook>>
loopVars == <<loop>>
strVars == <<imported>>
floatVars == <<bn_class_map, frames, mutables, floats>>
treeVars == <<tree>>

(***************************************************************************)
(* Bounds of the model.                                                    *)
(***************************************************************************)
\* number of channels of the supernet layer (in_channels = out_channels)
MaxCh == 2

Channels == 1..MaxCh

--------------------------------------------------------------------------
(***************************************************************************)
(* Tensor helpers.                                                         *)
(***************************************************************************)
\* tensor[mask]: the entries of a sequence at the positions where mask is True
Index(t, mask) ==
    LET idx == SelectSeq([i \in 1..Len(t) |-> i], LAMBDA i : mask[i])
    IN  [k \in 1..Len(idx) |-> t[idx[k]]]

\* mask.sum().item()
MaskSum(mask) == Cardinality({i \in 1..Len(mask) : mask[i]})

\* torch.ones(n).bool()
Ones(n) == [i \in 1..n |-> TRUE]

\* all masks of length n with at least one active channel
Masks(n) == {m \in [1..n -> BOOLEAN] : \E i \in 1..n : m[i]}

RECURSIVE SumSeq(_)
SumSeq(s) == IF Len(s) = 0 THEN 0 ELSE Head(s) + SumSeq(Tail(s))

\* torch.sqrt on the perfect squares the model uses
Sqrt(x) == CHOOSE r \in 0..x : r * r = x

--------------------------------------------------------------------------
(***************************************************************************)
(* Fake quantization of a weight tensor (self.weight_fake_quant): a        *)
(* symmetric quantizer with zero_point 0, step 4 and integer levels        *)
(* -2..2, rounding half to even as torch.fake_quantize does.               *)
(***************************************************************************)
RoundHalfEven(x, s) ==
    LET q == x \div s
        r == x % s
    IN  IF 2 * r < s THEN q
        ELSE IF 2 * r > s THEN q + 1
        ELSE IF q % 2 = 0 THEN q ELSE q + 1

Clamp(q, lo, hi) == IF q < lo THEN lo ELSE IF q > hi THEN hi ELSE q

FakeQuantScalar(x) == Clamp(RoundHalfEven(x, 4), -2, 2) * 4

\* self.weight_fake_quant(weight)
FakeQuant(w) == [r \in 1..Len(w) |-> [c \in 1..Len(w[r]) |-> FakeQuantScalar(w[r][c])]]

(***************************************************************************)
(* DynamicConvMixin._get_dynamic_params_by_mutable_channels: slices the    *)
(* rows of the weight (and the bias) by the mask of the mutable registered *)
(* under 'out_channels' and, for an ordinary convolution (groups == 1),    *)
(* the columns by the mask of the mutable registered under 'in_channels'.  *)
(***************************************************************************)
GetDynamicParamsByMutableChannels(m, weight, bias) ==
    LET attrs == m.mutable_attrs
        in_mask == IF "in_channels" \in DOMAIN attrs
                   THEN attrs["in_channels"] ELSE Ones(Len(weight[1]))
        out_mask == IF "out_channels" \in DOMAIN attrs
                    THEN attrs["out_channels"] ELSE Ones(Len(weight))
        rows == Index(weight, out_mask)
    IN  IF DOMAIN attrs = {} THEN [weight |-> weight, bias |-> bias]
        ELSE [weight |-> IF m.groups = 1
                         THEN [r \in 1..Len(rows) |-> Index(rows[r], in_mask)]
                         ELSE rows,
              bias |-> IF m.has_bias THEN Index(bias, out_mask) ELSE bias]

(***************************************************************************)
(* DynamicQConvBn2d.get_dynamic_params / DynamicQConvReLU2d.               *)
(* get_dynamic_params (the two bodies are the same).                       *)
(***************************************************************************)
GetDynamicParamsNoOutMask(m, orig_weight, orig_bias) ==
    LET wb == GetDynamicParamsByMutableChannels(m, orig_weight, orig_bias)
    IN  [weight |-> wb.weight, bias |-> wb.bias, padding |-> m.padding,
         out_mask |-> Ones(Len(wb.weight))]

get_dynamic_params(m, orig_weight, orig_bias) ==
    LET wb == GetDynamicParamsByMutableChannels(m, orig_weight, orig_bias)
    IN  [weight |-> wb.weight, bias |-> wb.bias, padding |-> m.padding,
         out_mask |-> IF "out_channels" \in DOMAIN m.mutable_attrs
                      THEN m.mutable_attrs["out_channels"]
                      ELSE Ones(Len(orig_weight))]

(***************************************************************************)
(* F.conv2d(input, weight, bias, stride, padding, dilation, groups) on a   *)
(* batch of 1 x 1 inputs; input is a sequence of samples, each a sequence  *)
(* of per-channel values.  Raises when the channel counts do not fit the   *)
(* groups.  The bias handed to it by the forward methods is zero.          *)
(***************************************************************************)
ConvAccepts(n_in, weight, groups) ==
    /\ groups >= 1
    /\ Len(weight) % groups = 0
    /\ n_in = Len(weight[1]) * groups

Conv2d(input, weight, groups) ==
    LET cpg == Len(weight[1])                \* input channels per group
        opg == Len(weight) \div groups       \* output channels per group
    IN  [b \in 1..Len(input) |->
            [c \in 1..Len(weight) |->
                LET g == (c - 1) \div opg
                IN  SumSeq([j \in 1..cpg |-> weight[c][j] * input[b][g * cpg + j]])]]

--------------------------------------------------------------------------
(***************************************************************************)
(* Conv-BN fusion arithmetic.  scale_factor = bn.weight / running_std is   *)
(* kept as the fraction num / den per channel.                             *)
(***************************************************************************)
\* torch.sqrt(self.bn.running_var + self.bn.eps)
RunningStd(bn) == [c \in 1..Len(bn.running_var) |-> Sqrt(bn.running_var[c] + bn.eps)]

\* self.bn.weight / running_std
ScaleFactor(bn) ==
    [c \in 1..Len(bn.weight) |-> [num |-> bn.weight[c], den |-> RunningStd(bn)[c]]]

\* weight * scale_factor.reshape(weight_shape): row r is scaled by scale_factor[r]
ScaleRows(weight, sf) ==
    [r \in 1..Len(weight) |->
        [c \in 1..Len(weight[r]) |-> (weight[r][c] * sf[r].num) \div sf[r].den]]

\* groups used by the forward methods: a depthwise module follows its input
ForwardGroups(m, input) ==
    IF m.groups = m.in_channels /\ m.in_channels = m.out_channels
    THEN Len(input[1]) ELSE m.groups

\* one entry of the log of calls a forward method makes
ConvCall(weight, groups) == [fn |-> "conv_func", weight |-> weight, groups |-> groups]
BnCall == [fn |-> "bn", weight |-> <<>>, groups |-> 0]

\* one entry of the log of tensor divisions a forward method performs;
\* zero[c] tells whether the divisor is zero on (active) channel c
Division(expr, divisor, zero) == [expr |-> expr, divisor |-> divisor, zero |-> zero]

(***************************************************************************)
(* DynamicQConvBn2d._forward_approximate(input).                           *)
(***************************************************************************)
ForwardApproximateTwoConvs(m, input) ==
    LET groups == ForwardGroups(m, input)
        scale_factor == ScaleFactor(m.bn)
        scaled_weight == FakeQuant(ScaleRows(m.weight, scale_factor))
        dp == get_dynamic_params(m, scaled_weight, m.bias)
        call == ConvCall(dp.weight, groups)
    IN  [op |-> "_forward_approximate", status |-> "ok", bn_training |-> m.bn.training,
         has_bias |-> m.has_bias, out_mask |-> dp.out_mask,
         calls |-> <<call, call, BnCall>>, divisions |-> <<>>]

_forward_approximate(m, input) ==
    LET groups == ForwardGroups(m, input)
        running_std == RunningStd(m.bn)
        scale_factor == ScaleFactor(m.bn)
        scaled_weight == FakeQuant(ScaleRows(m.weight, scale_factor))
        dp == get_dynamic_params(m, scaled_weight, m.bias)
        sf == Index(scale_factor, dp.out_mask)
        div_std == Division("bn.weight / running_std", "running_std",
                            [c \in 1..Len(running_std) |-> running_std[c] = 0])
        div_sf == Division("conv / scale_factor", "scale_factor",
                           [c \in 1..Len(sf) |-> sf[c].num = 0])
        call == ConvCall(dp.weight, groups)
        base == [op |-> "_forward_approximate", bn_training |-> m.bn.training,
                 has_bias |-> m.has_bias, out_mask |-> dp.out_mask]
    IN  IF ~ConvAccepts(Len(input[1]), dp.weight, groups)
        THEN [op |-> base.op, status |-> "conv_error", bn_training |-> base.bn_training,
              has_bias |-> base.has_bias, out_mask |-> base.out_mask,
              calls |-> <<call>>, divisions |-> <<div_std>>]
        ELSE [op |-> base.op, status |-> "ok", bn_training |-> base.bn_training,
              has_bias |-> base.has_bias, out_mask |-> base.out_mask,
              calls |-> <<call, BnCall>>, divisions |-> <<div_std, div_sf>>]

(***************************************************************************)
(* DynamicQConvBn2d._forward_slow(input).  new_var is bn.running_var as    *)
(* the BN call of the statistics pass leaves it (training mode only).      *)
(***************************************************************************)
\* batch_var of conv_out over a batch of two 1 x 1 samples, per channel
BatchVar(conv_out) ==
    [c \in 1..Len(conv_out[1]) |->
        LET half == (conv_out[1][c] - conv_out[2][c]) \div 2 IN half * half]

\* the calls of one _forward_slow, in order
ForwardSlowCallsNoStatsPass(bn_training, weight, scaled_weight, groups) ==
    <<ConvCall(scaled_weight, groups)>>

ForwardSlowCalls(bn_training, weight, scaled_weight, groups) ==
    IF bn_training
    THEN <<ConvCall(weight, groups), BnCall, ConvCall(scaled_weight, groups)>>
    ELSE <<ConvCall(scaled_weight, groups)>>

\* the tensor divisions of one _forward_slow, in order
ForwardSlowDivisionsByWeight(bn, bn_training, running_std, batch_var, out_mask) ==
    <<Division("bn.weight / running_std", "running_std",
               [c \in 1..Len(running_std) |-> running_std[c] = 0]),
      Division("conv_bn / scale_factor", "scale_factor",
               Index([c \in 1..Len(bn.weight) |-> bn.weight[c] = 0], out_mask))>>

ForwardSlowDivisions(bn, bn_training, running_std, batch_var, out_mask) ==
    LET std_zero == [c \in 1..Len(running_std) |-> running_std[c] = 0]
        batch_zero == [c \in 1..Len(batch_var) |-> batch_var[c] + bn.eps = 0]
        d_scale == Division("bn.weight / running_std", "running_std", std_zero)
    IN  IF bn_training
        THEN <<d_scale,
               Division("running_std[out_mask] / batch_std", "batch_std", batch_zero),
               Division("bn.weight[out_mask] * fused_mean / fused_std", "batch_std",
                        batch_zero)>>
        ELSE <<d_scale,
               Division("bn.weight[out_mask] * fused_mean / fused_std", "running_std",
                        Index(std_zero, out_mask))>>

\* the weight of the fused convolution (scaled_weight)
ForwardSlowScaledWeight(m, bn) ==
    LET dp == get_dynamic_params(m, FakeQuant(m.weight), m.bias)
        scale_factor == Index(ScaleFactor(bn), dp.out_mask)
    IN  ScaleRows(dp.weight, scale_factor)

_forward_slow(m, input, new_var) ==
    LET groups == ForwardGroups(m, input)
        dp == get_dynamic_params(m, FakeQuant(m.weight), m.bias)
        bn == IF m.bn.training THEN [m.bn EXCEPT !.running_var = new_var] ELSE m.bn
        scaled_weight == ForwardSlowScaledWeight(m, bn)
        accepts == ConvAccepts(Len(input[1]), dp.weight, groups)
        conv_out == Conv2d(input, dp.weight, groups)
        batch_var == IF m.bn.training /\ accepts THEN BatchVar(conv_out) ELSE <<>>
        calls == ForwardSlowCalls(m.bn.training, dp.weight, scaled_weight, groups)
    IN  [op |-> "_forward_slow",
         status |-> IF accepts THEN "ok" ELSE "conv_error",
         bn_training |-> m.bn.training, has_bias |-> m.has_bias,
         out_mask |-> dp.out_mask,
         calls |-> IF accepts THEN calls ELSE <<Head(calls)>>,
         divisions |-> IF accepts
                       THEN ForwardSlowDivisions(bn, m.bn.training, RunningStd(bn),
                                                  batch_var, dp.out_mask)
                       ELSE IF m.bn.training THEN <<>>
                       ELSE <<Head(ForwardSlowDivisions(bn, FALSE, RunningStd(bn),
                                                        batch_var, dp.out_mask))>>]

--------------------------------------------------------------------------
(***************************************************************************)
(* to_static_op.  The static classes are those of torch.nn.intrinsic.qat;  *)
(* their class attributes name the float modules they are built from.      *)
(***************************************************************************)
\* static_op_factory of the three dynamic classes
static_op_factory(m) ==
    CASE m.cls = "DynamicQConvBn2d"     -> "nniqat.ConvBn2d"
      [] m.cls = "DynamicQConvBnReLU2d" -> "nniqat.ConvBnReLU2d"
      [] m.cls = "DynamicQConvReLU2d"   -> "nniqat.ConvReLU2d"

\* cls._FLOAT_BN_MODULE / cls._FLOAT_RELU_MODULE are set (not None)
HasFloatBn(cls) == cls \in {"nniqat.ConvBn2d", "nniqat.ConvBnReLU2d"}
HasFloatRelu(cls) == cls \in {"nniqat.ConvBnReLU2d", "nniqat.ConvReLU2d"}

\* nn.Conv2d.__init__ rejects channel counts its groups do not divide
Conv2dInitAccepts(in_channels, out_channels, groups) ==
    /\ groups >= 1
    /\ in_channels % groups = 0
    /\ out_channels % groups = 0

\* groups of the static conv: a depthwise module with a mutable in_channels
\* takes the number of active input channels
StaticGroups(m) ==
    IF /\ m.groups = m.in_channels
       /\ m.in_channels = m.out_channels
       /\ "in_channels" \in DOMAIN m.mutable_attrs
    THEN MaskSum(m.mutable_attrs["in_channels"])
    ELSE m.groups

NoModule == [kind |-> "None"]

ToStaticOpFullChannels(m) ==
    LET cls == static_op_factory(m)
    IN  [status |-> "ok", cls |-> cls, training |-> m.training,
         conv |-> [kind |-> "nn.Conv2d", in_channels |-> m.in_channels,
                   out_channels |-> m.out_channels, kernel_size |-> m.kernel_size,
                   groups |-> m.groups, padding |-> m.padding, bias |-> m.has_bias,
                   weight |-> m.weight],
         bn |-> IF HasFloatBn(cls)
                THEN [kind |-> "nn.BatchNorm2d", num_features |-> m.out_channels,
                      weight |-> m.bn.weight, running_var |-> m.bn.running_var]
                ELSE NoModule,
         relu |-> HasFloatRelu(cls),
         fq_scale |-> m.fq_scale]

to_static_op(m) ==
    LET dp == get_dynamic_params(m, m.weight, m.bias)
        groups == StaticGroups(m)
        out_channels == Len(dp.weight)
        in_channels == Len(dp.weight[1]) * groups
        cls == static_op_factory(m)
        fq_scale == IF Len(m.fq_scale) > 1 /\ Len(m.fq_scale) # out_channels
                    THEN Index(m.fq_scale, dp.out_mask) ELSE m.fq_scale
    IN  IF ~Conv2dInitAccepts(in_channels, out_channels, groups)
        THEN [status |-> "ValueError"]
        ELSE [status |-> "ok", cls |-> cls, training |-> m.training,
              conv |-> [kind |-> "nn.Conv2d", in_channels |-> in_channels,
                        out_channels |-> out_channels, kernel_size |-> m.kernel_size,
                        groups |-> groups, padding |-> m.padding, bias |-> m.has_bias,
                        weight |-> dp.weight],
              bn |-> IF HasFloatBn(cls)
                     THEN [kind |-> "nn.BatchNorm2d", num_features |-> out_channels,
                           weight |-> Index(m.bn.weight, dp.out_mask),
                           running_var |-> Index(m.bn.running_var, dp.out_mask)]
                     ELSE NoModule,
              relu |-> HasFloatRelu(cls),
              fq_scale |-> fq_scale]

--------------------------------------------------------------------------
(***************************************************************************)
(* The dynamic QAT conv module and the calls made on it.                   *)
(***************************************************************************)
QConvClasses == {"DynamicQConvBn2d", "DynamicQConvBnReLU2d", "DynamicQConvReLU2d"}
HasBn(m) == m.cls \in {"DynamicQConvBn2d", "DynamicQConvBnReLU2d"}

\* values the BN parameters and statistics are drawn from
BnWeights == {[c \in Channels |-> 1], [c \in Channels |-> IF c = 1 THEN 0 ELSE 2]}
RunningVars == {[c \in Channels |-> 0], [c \in Channels |-> 3]}

\* input batches of two samples with n channels
Inputs(n) == {<<[j \in 1..n |-> 1], [j \in 1..n |-> a]>> : a \in {1, 3}}

\* number of channels the previous layer feeds into the module
InputChannels(m) ==
    IF "in_channels" \in DOMAIN m.mutable_attrs
    THEN MaskSum(m.mutable_attrs["in_channels"]) ELSE m.in_channels

NoBn == [training |-> FALSE, eps |-> 1, weight |-> [c \in Channels |-> 1],
         running_var |-> [c \in Channels |-> 0]]

\* the module as __init__ / from_float leave it: no mutable attribute yet
InitQConv(cls, depthwise, has_bias, ksize, training, bn_weight, running_var) ==
    [cls |-> cls,
     in_channels |-> MaxCh, out_channels |-> MaxCh,
     groups |-> IF depthwise THEN MaxCh ELSE 1,
     kernel_size |-> <<ksize, ksize>>, padding |-> (ksize - 1) \div 2,
     has_bias |-> has_bias,
     weight |-> [r \in Channels |->
                    [c \in 1..(IF depthwise THEN 1 ELSE MaxCh) |-> 2 * (r + c)]],
     bias |-> IF has_bias THEN [c \in Channels |-> c] ELSE <<>>,
     training |-> training,
     fq_scale |-> [c \in Channels |-> 4],
     bn |-> IF cls = "DynamicQConvReLU2d" THEN NoBn
            ELSE [training |-> training, eps |-> 1, weight |-> bn_weight,
                  running_var |-> running_var],
     mutable_attrs |-> <<>>]

NoCall == [op |-> "none"]

InitConv ==
    /\ \E cls \in QConvClasses, depthwise \in BOOLEAN, has_bias \in BOOLEAN,
          ksize \in {1, 3}, training \in BOOLEAN,
          bn_weight \in BnWeights, running_var \in RunningVars :
          /\ cls = "DynamicQConvReLU2d" =>
                 bn_weight = NoBn.weight /\ running_var = NoBn.running_var
          /\ qconv = InitQConv(cls, depthwise, has_bias, ksize, training,
                               bn_weight, running_var)
    /\ last = NoCall

\* register_mutable_attr(attr, mutable): the mutable comes with its current mask
RegisterMutableAttr ==
    \E attr \in {"in_channels", "out_channels"}, mask \in Masks(MaxCh) :
        /\ attr \notin DOMAIN qconv.mutable_attrs
        /\ qconv' = [qconv EXCEPT !.mutable_attrs =
                        [a \in DOMAIN qconv.mutable_attrs \cup {attr} |->
                            IF a = attr THEN mask ELSE qconv.mutable_attrs[a]]]
        /\ last' = NoCall
        /\ UNCHANGED <<backend, fused, treeVars, counterVars, loopVars, strVars, floatVars>>

\* the mutator samples a sub-architecture: a registered mutable changes its mask
SetChoice ==
    \E attr \in DOMAIN qconv.mutable_attrs, mask \in Masks(MaxCh) :
        /\ qconv' = [qconv EXCEPT !.mutable_attrs[attr] = mask]
        /\ last' = NoCall
        /\ UNCHANGED <<backend, fused, treeVars, counterVars, loopVars, strVars, floatVars>>

\* nn.Module.train(mode) sets the flag of the module and of its bn
Train ==
    \E mode \in BOOLEAN :
        /\ qconv' = [qconv EXCEPT !.training = mode,
                                  !.bn.training = IF HasBn(qconv) THEN mode ELSE @]
        /\ last' = NoCall
        /\ UNCHANGED <<backend, fused, treeVars, counterVars, loopVars, strVars, floatVars>>

\* freeze_bn_stats() of the QAT conv-bn base class
FreezeBnStats ==
    /\ HasBn(qconv)
    /\ qconv' = [qconv EXCEPT !.bn.training = FALSE]
    /\ last' = NoCall
    /\ UNCHANGED <<backend, fused, treeVars, counterVars, loopVars, strVars, floatVars>>

GetDynamicParams ==
    /\ last' = [op |-> "get_dynamic_params",
                ret |-> get_dynamic_params(qconv, qconv.weight, qconv.bias)]
    /\ UNCHANGED <<qconv, backend, fused, treeVars, counterVars, loopVars, strVars, floatVars>>

\* the BN call of a forward pass updates the running statistics in training
ForwardApproximate ==
    \E input \in Inputs(InputChannels(qconv)), new_var \in RunningVars :
        /\ HasBn(qconv)
        /\ last' = _forward_approximate(qconv, input)
        /\ qconv' = IF qconv.bn.training /\ last'.status = "ok"
                    THEN [qconv EXCEPT !.bn.running_var = new_var] ELSE qconv
        /\ UNCHANGED <<backend, fused, treeVars, counterVars, loopVars, strVars, floatVars>>

ForwardSlow ==
    \E input \in Inputs(InputChannels(qconv)), new_var \in RunningVars :
        /\ HasBn(qconv)
        /\ last' = _forward_slow(qconv, input, new_var)
        /\ qconv' = IF qconv.bn.training /\ last'.status = "ok"
                    THEN [qconv EXCEPT !.bn.running_var = new_var] ELSE qconv
        /\ UNCHANGED <<backend, fused, treeVars, counterVars, loopVars, strVars, floatVars>>

ToStaticOp ==
    /\ last' = [op |-> "to_static_op", ret |-> to_static_op(qconv)]
    /\ UNCHANGED <<qconv, backend, fused, treeVars, counterVars, loopVars, strVars, floatVars>>

Next ==
    \/ RegisterMutableAttr
    \/ SetChoice
    \/ Train
    \/ FreezeBnStats
    \/ GetDynamicParams
    \/ ForwardApproximate
    \/ ForwardSlow
    \/ ToStaticOp

--------------------------------------------------------------------------
(***************************************************************************)
(* Backend pattern configs.  A pattern is a sequence of operator names: a  *)
(* single operator is a sequence of one name, a fusion pattern lists its   *)
(* operators in the (reversed) order of the source, nesting flattened.     *)
(***************************************************************************)
None == "None"
observation_type == "OUTPUT_USE_DIFFERENT_OBSERVER_AS_INPUT"

\* BackendPatternConfig(pattern): nothing set, the default observation type
BackendPatternConfig(pattern) ==
    [pattern |-> pattern, observation_type |-> observation_type,
     dtype_configs |-> None, root_module |-> None,
     reference_quantized_module |-> None, qat_module |-> None,
     fuser_method |-> None, fused_module |-> None]

\* .set_observation_type(observation_type).set_dtype_configs(d).set_root_module(r)
Observed(pattern, root) ==
    [BackendPatternConfig(pattern) EXCEPT !.dtype_configs = "dtype_configs",
                                          !.root_module = root]

\* .set_dtype_configs(d).set_fuser_method(f).set_fused_module(m)
Fusion(pattern, fuser, fused_module) ==
    [BackendPatternConfig(pattern) EXCEPT !.dtype_configs = "dtype_configs",
                                          !.fuser_method = fuser,
                                          !.fused_module = fused_module]

\* .set_dtype_configs(d) alone
Typed(pattern) == [BackendPatternConfig(pattern) EXCEPT !.dtype_configs = "dtype_configs"]

\* .set_reference_quantized_module(ref)
Ref(config, ref) == [config EXCEPT !.reference_quantized_module = ref]

\* the standard (static) operators: _ConvMetadata for 1d, 2d and 3d
ConvMetadata(d) ==
    [root |-> "nn.Conv" \o d, transpose |-> "nn.ConvTranspose" \o d,
     bn |-> "nn.BatchNorm" \o d, reference |-> "nnqr.Conv" \o d,
     transpose_reference |-> "nnqr.ConvTranspose" \o d,
     fused_conv_relu |-> "nni.ConvReLU" \o d, fused_conv_bn |-> "nni.ConvBn" \o d,
     fused_conv_bn_relu |-> "nni.ConvBnReLU" \o d, qat |-> "nnqat.Conv" \o d,
     relu_qat |-> "nniqat.ConvReLU" \o d, bn_qat |-> "nniqat.ConvBn" \o d,
     bn_relu_qat |-> "nniqat.ConvBnReLU" \o d, func |-> "F.conv" \o d]

\* the body of the loop of _get_conv_configs for one _ConvMetadata
ConvConfigsOf(convs) ==
    << [Ref(Observed(<<convs.root>>, convs.root), convs.reference)
            EXCEPT !.qat_module = convs.qat],
       Ref(Observed(<<convs.qat>>, convs.root), convs.reference),
       Typed(<<convs.func>>),
       Fusion(<<"nn.ReLU", convs.root>>, "reverse_sequential_wrapper2", convs.fused_conv_relu),
       Fusion(<<"F.relu", convs.root>>, "reverse_sequential_wrapper2", convs.fused_conv_relu),
       [Ref(Observed(<<convs.fused_conv_relu>>, convs.root), convs.reference)
            EXCEPT !.qat_module = convs.relu_qat],
       Ref(Observed(<<convs.relu_qat>>, convs.root), convs.reference),
       Typed(<<"nn.ReLU", convs.func>>),
       Typed(<<"F.relu", convs.func>>),
       [Typed(<<convs.fused_conv_relu>>) EXCEPT !.qat_module = convs.relu_qat],
       Ref([Typed(<<convs.relu_qat>>) EXCEPT !.root_module = convs.root], convs.reference),
       Fusion(<<convs.bn, convs.root>>, "reverse2(fuse_conv_bn)", convs.fused_conv_bn),
       Fusion(<<"nn.ReLU", convs.bn, convs.root>>, "reverse3(fuse_conv_bn_relu)",
              convs.fused_conv_bn_relu),
       [Fusion(<<"F.relu", convs.bn, convs.root>>, "reverse3(fuse_conv_bn_relu)",
               convs.fused_conv_bn_relu) EXCEPT !.root_module = convs.root],
       [Typed(<<convs.fused_conv_bn>>) EXCEPT !.qat_module = convs.bn_qat],
       [Typed(<<convs.fused_conv_bn_relu>>) EXCEPT !.qat_module = convs.bn_relu_qat],
       Ref(Observed(<<convs.bn_qat>>, convs.root), convs.reference),
       Ref(Observed(<<convs.bn_relu_qat>>, convs.root), convs.reference),
       Ref([Typed(<<convs.transpose>>) EXCEPT !.root_module = convs.transpose],
           convs.transpose_reference),
       Ref([Typed(<<convs.bn, convs.transpose>>)
                EXCEPT !.fuser_method = "reverse2(fuse_convtranspose_bn)",
                       !.root_module = convs.transpose],
           convs.transpose_reference) >>

_get_conv_configs ==
    ConvConfigsOf(ConvMetadata("1d")) \o ConvConfigsOf(ConvMetadata("2d"))
        \o ConvConfigsOf(ConvMetadata("3d"))

_get_linear_configs ==
    << [Ref(Observed(<<"nn.Linear">>, "nn.Linear"), "nnqr.Linear")
            EXCEPT !.qat_module = "nnqat.Linear"],
       Ref(Observed(<<"nnqat.Linear">>, "nn.Linear"), "nnqr.Linear"),
       Typed(<<"F.linear">>),
       Fusion(<<"nn.ReLU", "nn.Linear">>, "reverse_sequential_wrapper2", "nni.LinearReLU"),
       Fusion(<<"F.relu", "nn.Linear">>, "reverse_sequential_wrapper2", "nni.LinearReLU"),
       [Ref(Observed(<<"nni.LinearReLU">>, "nn.Linear"), "nnqr.Linear")
            EXCEPT !.qat_module = "nniqat.LinearReLU"],
       Ref(Observed(<<"nniqat.LinearReLU">>, "nn.Linear"), "nnqr.Linear"),
       Typed(<<"nn.ReLU", "F.linear">>),
       Typed(<<"F.relu", "F.linear">>),
       Fusion(<<"nn.BatchNorm1d", "nn.Linear">>, "reverse2(fuse_linear_bn)", "nni.LinearBn1d"),
       [Ref(Observed(<<"nni.LinearBn1d">>, "nn.Linear"), "nnqr.Linear")
            EXCEPT !.qat_module = "nniqat.LinearBn1d"],
       Ref(Observed(<<"nniqat.LinearBn1d">>, "nn.Linear"), "nnqr.Linear") >>

\* (1) single conv module and its qat module
DynamicConvSingleConfigs ==
    << [Observed(<<"BigNasConv2d">>, "BigNasConv2d") EXCEPT !.qat_module = "DynamicQConv2d"],
       Observed(<<"DynamicQConv2d">>, "BigNasConv2d") >>

\* (2) conv + relu: the fusion patterns, the fused module and its qat module,
\* then the fused module and the qat module a second time
DynamicConvReluConfigs ==
    << Fusion(<<"nn.ReLU", "BigNasConv2d">>,
              "reverse_sequential_wrapper2(DynamicConvReLU2d)", "DynamicConvReLU2d"),
       Fusion(<<"F.relu", "BigNasConv2d">>,
              "reverse_sequential_wrapper2(DynamicConvReLU2d)", "DynamicConvReLU2d"),
       [Observed(<<"DynamicConvReLU2d">>, "BigNasConv2d")
            EXCEPT !.qat_module = "DynamicQConvReLU2d"],
       Observed(<<"DynamicQConvReLU2d">>, "BigNasConv2d"),
       [Typed(<<"DynamicConvReLU2d">>) EXCEPT !.qat_module = "DynamicQConvReLU2d"],
       [Typed(<<"DynamicQConvReLU2d">>) EXCEPT !.root_module = "BigNasConv2d"] >>

\* (3.1) conv + bn (+ relu) fusion patterns
DynamicConvBnFusionConfigs ==
    << Fusion(<<"DynamicBatchNorm2d", "BigNasConv2d">>,
              "reverse2(fuse_dynamic_conv_bn)", "DynamicConvBn2d"),
       Fusion(<<"nn.ReLU", "DynamicBatchNorm2d", "BigNasConv2d">>,
              "reverse3(fuse_dynamic_conv_bn_relu)", "DynamicConvBnReLU2d"),
       [Fusion(<<"F.relu", "DynamicBatchNorm2d", "BigNasConv2d">>,
               "reverse3(fuse_dynamic_conv_bn_relu)", "DynamicConvBnReLU2d")
            EXCEPT !.root_module = "BigNasConv2d"] >>

DynamicConvBnFusedConfigsNoQatRoot ==
    << [Typed(<<"DynamicConvBn2d">>) EXCEPT !.qat_module = "DynamicQConvBn2d"],
       [Typed(<<"DynamicConvBnReLU2d">>) EXCEPT !.qat_module = "DynamicQConvBnReLU2d"],
       Observed(<<"DynamicQConvBn2d">>, "BigNasConv2d"),
       Typed(<<"DynamicQConvBnReLU2d">>) >>

\* (3.2) fused conv bn (relu) modules and their qat modules
DynamicConvBnFusedConfigs ==
    << [Typed(<<"DynamicConvBn2d">>) EXCEPT !.qat_module = "DynamicQConvBn2d"],
       [Typed(<<"DynamicConvBnReLU2d">>) EXCEPT !.qat_module = "DynamicQConvBnReLU2d"],
       Observed(<<"DynamicQConvBn2d">>, "BigNasConv2d"),
       Observed(<<"DynamicQConvBnReLU2d">>, "BigNasConv2d") >>

_get_dynamicconv_configs ==
    DynamicConvSingleConfigs \o DynamicConvReluConfigs
        \o DynamicConvBnFusionConfigs \o DynamicConvBnFusedConfigs

_get_dynamiclinear_configs ==
    << [Observed(<<"DynamicLinear">>, "DynamicLinear") EXCEPT !.qat_module = "DynamicQLinear"],
       Observed(<<"DynamicQLinear">>, "DynamicLinear"),
       Fusion(<<"nn.ReLU", "DynamicLinear">>,
              "reverse_sequential_wrapper2(DynamicLinearReLU)", "DynamicLinearReLU"),
       Fusion(<<"F.relu", "DynamicLinear">>,
              "reverse_sequential_wrapper2(DynamicLinearReLU)", "DynamicLinearReLU"),
       [Observed(<<"DynamicLinearReLU">>, "DynamicLinear")
            EXCEPT !.qat_module = "DynamicQLinearReLU"],
       Observed(<<"DynamicQLinearReLU">>, "DynamicLinear"),
       Fusion(<<"DynamicBatchNorm1d", "DynamicLinear">>,
              "reverse2(fuse_dynamic_linear_bn)", "DynamicLinearBn1d"),
       [Observed(<<"DynamicLinearBn1d">>, "DynamicLinear")
            EXCEPT !.qat_module = "DynamicQLinearBn1d"],
       Observed(<<"DynamicQLinearBn1d">>, "DynamicLinear") >>

(***************************************************************************)
(* get_weightonly_backend_config: BackendConfig('weightonly') with the     *)
(* four lists set in turn.  set_backend_pattern_configs sets the configs   *)
(* of a list one by one; BackendConfig keeps one config per pattern.       *)
(***************************************************************************)
WeightOnlyConfigs ==
    _get_conv_configs \o _get_linear_configs
        \o _get_dynamicconv_configs \o _get_dynamiclinear_configs

\* BackendConfig.set_backend_pattern_config(config)
set_backend_pattern_config(installed, config) ==
    [p \in DOMAIN installed \cup {config.pattern} |->
        IF p = config.pattern THEN config ELSE installed[p]]

InitBackend == [installed |-> <<>>, pc |-> 1]

BackendDone == backend.pc > Len(WeightOnlyConfigs)

SetBackendPatternConfig ==
    /\ ~BackendDone
    /\ backend' = [installed |-> set_backend_pattern_config(
                                     backend.installed, WeightOnlyConfigs[backend.pc]),
                   pc |-> backend.pc + 1]
    /\ UNCHANGED <<fused, qconv, last, treeVars, counterVars, loopVars, strVars, floatVars>>

--------------------------------------------------------------------------
(***************************************************************************)
(* Fuser methods.  A call either raises or returns a module.  The fusion   *)
(* pass hands a matched pattern to its fuser method once the backend       *)
(* config is complete.                                                     *)
(***************************************************************************)
Raised(exc) == [raised |-> exc, returned |-> NoModule]
Returned(module) == [raised |-> None, returned |-> module]

\* nn.utils.fuse_conv_bn_eval(conv, bn): the conv with the BN folded into it
fuse_conv_bn_eval(conv, bn) == [kind |-> "fuse_conv_bn_eval", modules |-> <<conv, bn>>]

FuseDynamicConvBnSubclassOk(is_qat, conv, bn) ==
    IF conv.training # bn.training THEN Raised("AssertionError")
    ELSE IF is_qat
    THEN IF bn.num_features # conv.out_channels THEN Raised("AssertionError")
         ELSE IF ~bn.affine THEN Raised("AssertionError")
         ELSE IF ~bn.track_running_stats THEN Raised("AssertionError")
         ELSE IF conv.type \in {"BigNasConv2d", "BigNasConv2dSubclass"}
         THEN Returned([kind |-> "DynamicConvBn2d", modules |-> <<conv, bn>>])
         ELSE Raised("NotImplementedError")
    ELSE Returned(fuse_conv_bn_eval(conv, bn))

fuse_dynamic_conv_bn(is_qat, conv, bn) ==
    IF conv.training # bn.training THEN Raised("AssertionError")
    ELSE IF is_qat
    THEN IF bn.num_features # conv.out_channels THEN Raised("AssertionError")
         ELSE IF ~bn.affine THEN Raised("AssertionError")
         ELSE IF ~bn.track_running_stats THEN Raised("AssertionError")
         ELSE IF conv.type = "BigNasConv2d"
         THEN Returned([kind |-> "DynamicConvBn2d", modules |-> <<conv, bn>>])
         ELSE Raised("NotImplementedError")
    ELSE Returned(fuse_conv_bn_eval(conv, bn))

FuseDynamicConvBnReluTypeFirst(is_qat, conv, bn, relu) ==
    IF conv.training # bn.training \/ bn.training # relu.training
    THEN Raised("AssertionError")
    ELSE IF conv.type # "BigNasConv2d" THEN Raised("NotImplementedError")
    ELSE IF is_qat
    THEN IF bn.num_features # conv.out_channels \/ ~bn.affine \/ ~bn.track_running_stats
         THEN Raised("AssertionError")
         ELSE Returned([kind |-> "DynamicConvBnReLU2d", modules |-> <<conv, bn, relu>>])
    ELSE Returned([kind |-> "DynamicConvReLU2d",
                   modules |-> <<fuse_conv_bn_eval(conv, bn), relu>>])

fuse_dynamic_conv_bn_relu(is_qat, conv, bn, relu) ==
    IF conv.training # bn.training \/ bn.training # relu.training
    THEN Raised("AssertionError")
    ELSE IF is_qat
    THEN IF bn.num_features # conv.out_channels THEN Raised("AssertionError")
         ELSE IF ~bn.affine THEN Raised("AssertionError")
         ELSE IF ~bn.track_running_stats THEN Raised("AssertionError")
         ELSE IF conv.type = "BigNasConv2d"
         THEN Returned([kind |-> "DynamicConvBnReLU2d", modules |-> <<conv, bn, relu>>])
         ELSE Raised("NotImplementedError")
    ELSE IF conv.type = "BigNasConv2d"
         THEN Returned([kind |-> "DynamicConvReLU2d",
                        modules |-> <<fuse_conv_bn_eval(conv, bn), relu>>])
         ELSE Raised("NotImplementedError")

\* the modules a fuser method may be handed
ConvTypes == {"BigNasConv2d", "BigNasConv2dSubclass", "nn.Conv2d"}
Convs == [type : ConvTypes, training : BOOLEAN, out_channels : Channels]
Bns == [training : BOOLEAN, num_features : Channels, affine : BOOLEAN,
        track_running_stats : BOOLEAN]
Relus == [training : BOOLEAN]
NoRelu == [training |-> FALSE]

NoFuse == [fn |-> "none"]

FuseDynamicConvBn ==
    \E is_qat \in BOOLEAN, conv \in Convs, bn \in Bns :
        /\ BackendDone
        /\ fused = NoFuse
        /\ fused' = [fn |-> "fuse_dynamic_conv_bn", is_qat |-> is_qat, conv |-> conv,
                     bn |-> bn, relu |-> NoRelu,
                     out |-> fuse_dynamic_conv_bn(is_qat, conv, bn)]
        /\ UNCHANGED <<backend, qconv, last, treeVars, counterVars, loopVars, strVars, floatVars>>

FuseDynamicConvBnRelu ==
    \E is_qat \in BOOLEAN, conv \in Convs, bn \in Bns, relu \in Relus :
        /\ BackendDone
        /\ fused = NoFuse
        /\ fused' = [fn |-> "fuse_dynamic_conv_bn_relu", is_qat |-> is_qat, conv |-> conv,
                     bn |-> bn, relu |-> relu,
                     out |-> fuse_dynamic_conv_bn_relu(is_qat, conv, bn, relu)]
        /\ UNCHANGED <<backend, qconv, last, treeVars, counterVars, loopVars, strVars, floatVars>>

NextQuant ==
    \/ SetBackendPatternConfig
    \/ FuseDynamicConvBn
    \/ FuseDynamicConvBnRelu

--------------------------------------------------------------------------
(***************************************************************************)
(* FLOPs / params counters of normalization layers:                        *)
(*   mmrazor/models/task_modules/estimators/counters/op_counters/          *)
(*       norm_layer_counter.py                                             *)
(* A counter is a forward hook: add_count_hook(module, input, output).     *)
(***************************************************************************)
\* largest batch size, height and width of a hooked input
MaxDim == 2
\* number of hook calls followed on one module
MaxCalls == 2

\* np.prod(input.shape)
Prod(shape) == shape[1] * shape[2] * shape[3] * shape[4]

\* input shapes (B, C, H, W)
Shapes == {<<b, c, h, w>> : b \in 1..MaxDim, c \in Channels,
                            h \in {1, MaxDim}, w \in {1, MaxDim}}

\* the 'num_features' mutable of a dynamic BN: a container of mutable channels
\* with a mask; its first mutable channel may carry activated_tensor_channels
NumFeaturesMutables ==
    [mask : Masks(MaxCh), has_atc : BOOLEAN, atc : 0..MaxCh]

\* MutableChannelContainer.activated_channels
activated_channels(mutable) == MaskSum(mutable.mask)

NoMutable == [mask |-> Ones(MaxCh), has_atc |-> FALSE, atc |-> 0]

\* normalization layers the counters are hooked on
NormLayers ==
    {[cls |-> cls, affine |-> affine, num_features |-> MaxCh,
      mutable_attrs |-> attrs, flops |-> 0, params |-> 0, calls |-> 0] :
        cls \in {"BatchNorm2d", "DynamicBatchNorm2d"}, affine \in BOOLEAN,
        attrs \in {<<>>} \cup
                  {[a \in {"num_features"} |-> mu] : mu \in NumFeaturesMutables
                                                   \ {NoMutable}}}

NoHook == [counter |-> "none"]

HookReturned(module, counter, shape, flops, params) ==
    [module |-> [module EXCEPT !.flops = @ + flops, !.params = @ + params,
                               !.calls = @ + 1],
     hook |-> [counter |-> counter, status |-> "ok", shape |-> shape,
               affine |-> module.affine,
               flops_before |-> module.flops, params_before |-> module.params]]

HookRaised(module, counter, shape, exc) ==
    [module |-> [module EXCEPT !.calls = @ + 1],
     hook |-> [counter |-> counter, status |-> exc, shape |-> shape,
               affine |-> module.affine,
               flops_before |-> module.flops, params_before |-> module.params]]

\* BNCounter.add_count_hook: batch_flops is computed and then left unused
BNCounter_add_count_hook(module, shape) ==
    LET batch_flops == IF module.affine THEN Prod(shape) * 2 ELSE Prod(shape)
    IN  HookReturned(module, "BNCounter", shape, 0, 0)

DMCPFlopsOfInputChannels(module, shape) ==
    LET batch_flops == shape[1] * shape[2] * shape[3] * shape[4]
    IN  IF module.affine THEN batch_flops * 2 ELSE batch_flops

DMCPFlops(module, shape) ==
    LET mutable_channel == module.mutable_attrs["num_features"]
        C == IF mutable_channel.has_atc THEN mutable_channel.atc ELSE shape[2]
        batch_flops == shape[1] * C * shape[3] * shape[4]
    IN  IF module.affine THEN batch_flops * 2 ELSE batch_flops

\* DMCPBatchNorm2dCounter.add_count_hook
DMCP_add_count_hook(module, shape) ==
    IF "num_features" \notin DOMAIN module.mutable_attrs
    THEN HookRaised(module, "DMCPBatchNorm2dCounter", shape, "KeyError")
    ELSE HookReturned(module, "DMCPBatchNorm2dCounter", shape,
                      DMCPFlops(module, shape),
                      activated_channels(module.mutable_attrs["num_features"]) * 2)

InitCounter ==
    /\ norm \in NormLayers
    /\ norm.cls = "BatchNorm2d" => norm.mutable_attrs = <<>>
    /\ hook = NoHook

IdleCounter ==
    /\ norm = [cls |-> "BatchNorm2d", affine |-> FALSE, num_features |-> MaxCh,
               mutable_attrs |-> <<>>, flops |-> 0, params |-> 0, calls |-> 0]
    /\ hook = NoHook

\* a forward pass of a static norm layer with a BNCounter hooked on it
BNAddCountHook ==
    \E shape \in Shapes :
        /\ norm.calls < MaxCalls
        /\ norm.cls = "BatchNorm2d"
        /\ LET r == BNCounter_add_count_hook(norm, shape)
           IN  norm' = r.module /\ hook' = r.hook
        /\ UNCHANGED <<treeVars, convVars, quantVars, loopVars, strVars, floatVars>>

\* a forward pass of a dynamic BN with a DMCPBatchNorm2dCounter hooked on it
DMCPAddCountHook ==
    \E shape \in Shapes :
        /\ norm.calls < MaxCalls
        /\ norm.cls = "DynamicBatchNorm2d"
        /\ LET r == DMCP_add_count_hook(norm, shape)
           IN  norm' = r.module /\ hook' = r.hook
        /\ UNCHANGED <<treeVars, convVars, quantVars, loopVars, strVars, floatVars>>

NextCounter ==
    \/ BNAddCountHook
    \/ DMCPAddCountHook

--------------------------------------------------------------------------
(***************************************************************************)
(* Subnet validation loop:                                                 *)
(*   mmrazor/engine/runner/subnet_export_val_loop.py                       *)
(* A method is followed by the sequence of calls it makes on the runner,   *)
(* the mutator, the dataloader, the evaluator and the estimator.           *)
(***************************************************************************)
\* longest list of sample kinds of the model
MaxKinds == 2
\* largest number of batches of the validation dataloader
MaxBatches == 2

\* number of validation iterations of one evaluation
num_infer == 0

Min(a, b) == IF a < b THEN a ELSE b

\* dict.update: the keys of new replace those of old
Update(old, new) ==
    [k \in DOMAIN old \cup DOMAIN new |-> IF k \in DOMAIN new THEN new[k] ELSE old[k]]

EmptyDict == [k \in {} |-> 0]

\* add_prefix(inputs, prefix): every key name becomes prefix.name
add_prefix(inputs, prefix) ==
    LET names == {prefix \o "." \o k : k \in DOMAIN inputs}
    IN  [n \in names |-> inputs[CHOOSE k \in DOMAIN inputs : n = prefix \o "." \o k]]

Call(fn) == [fn |-> fn]
CallWith(fn, arg) == [fn |-> fn, arg |-> arg]

\* the model the loop works on: runner.model.module when distributed
Unwrapped(L) == IF L.distributed THEN "runner.model.module" ELSE "runner.model"

\* export_fix_subnet(model, slice_weight=True)[1]
export_fix_subnet(model) == "fix_subnet(" \o model \o ")"

\* results of the evaluator and of the resource estimator
EvaluatorMetrics == [k \in {"accuracy"} |-> 7]
ResourceMetrics == [k \in {"flops", "params"} |-> IF k = "flops" THEN 5 ELSE 3]

CalibrateCalls(L) ==
    IF L.calibrate_sample_num > 0
    THEN <<CallWith("calibrate_bn_statistics",
                    <<"runner.train_dataloader", L.calibrate_sample_num>>)>>
    ELSE <<>>

\* the loop over the dataloader: the batch is fetched, then idx is compared
RunIterCalls(L) ==
    LET fetched == Min(L.n_batches, num_infer + 1)
        fetch(idx) == <<Call("next(dataloader)")>> \o
                      (IF idx >= num_infer THEN <<>>
                       ELSE <<CallWith("run_iter", idx)>>)
        calls[i \in 0..fetched] ==
            IF i = 0 THEN <<>> ELSE calls[i - 1] \o fetch(i - 1)
    IN  calls[fetched]

ExportCalls(L) ==
    IF L.is_supernet
    THEN <<CallWith("export_fix_subnet", <<Unwrapped(L), "slice_weight">>)>>
    ELSE <<>>

EstimatedModelAlwaysExported(L) == export_fix_subnet(Unwrapped(L))

EstimatedModel(L) ==
    IF L.is_supernet THEN export_fix_subnet(Unwrapped(L)) ELSE Unwrapped(L)

CalibrateAfterEval(L) ==
    <<Call("runner.model.eval")>> \o CalibrateCalls(L)

CalibrateThenEval(L) ==
    CalibrateCalls(L) \o <<Call("runner.model.eval")>>

\* SubnetExportValLoop._evaluate_once
_evaluate_once(L) ==
    LET metrics == IF num_infer = 0 THEN EmptyDict ELSE EvaluatorMetrics
        evaluate == IF num_infer = 0 THEN <<>>
                    ELSE <<CallWith("evaluator.evaluate", num_infer)>>
    IN  [calls |-> <<Call("_evaluate_once")>>
                   \o CalibrateThenEval(L)
                   \o RunIterCalls(L)
                   \o ExportCalls(L)
                   \o evaluate
                   \o <<CallWith("estimator.estimate", EstimatedModel(L))>>
                   \o <<Call("return")>>,
         metrics |-> Update(metrics, ResourceMetrics)]

\* one pass of the loop over model.sample_kinds
EvaluateKind(L, kind) ==
    LET once == _evaluate_once(L)
    IN  IF kind = "max"
        THEN [calls |-> <<Call("mutator.set_max_choices")>> \o once.calls,
              metrics |-> add_prefix(once.metrics, "max_subnet")]
        ELSE IF kind = "min"
        THEN [calls |-> <<Call("mutator.set_min_choices")>> \o once.calls,
              metrics |-> add_prefix(once.metrics, "min_subnet")]
        ELSE IF kind \in {"random0", "random1"}
        THEN [calls |-> <<Call("mutator.sample_choices"),
                          Call("mutator.set_choices")>> \o once.calls,
              metrics |-> add_prefix(once.metrics, kind \o "_subnet")]
        ELSE [calls |-> <<>>, metrics |-> EmptyDict]

EvaluateKinds(L) ==
    LET n == Len(L.sample_kinds)
        acc[i \in 0..n] ==
            IF i = 0 THEN [calls |-> <<>>, metrics |-> EmptyDict]
            ELSE LET one == EvaluateKind(L, L.sample_kinds[i])
                 IN  [calls |-> acc[i - 1].calls \o one.calls,
                      metrics |-> Update(acc[i - 1].metrics, one.metrics)]
    IN  acc[n]

RunSampledAlways(L) ==
    IF L.has_sample_kinds THEN EvaluateKinds(L)
    ELSE IF L.evaluate_fixed_subnet
    THEN [calls |-> _evaluate_once(L).calls,
          metrics |-> add_prefix(_evaluate_once(L).metrics, "fix_subnet")]
    ELSE [calls |-> <<>>, metrics |-> EmptyDict]

\* the branches of SubnetExportValLoop.run between the hooks
RunBranches(L) ==
    IF L.evaluate_fixed_subnet
    THEN [calls |-> _evaluate_once(L).calls,
          metrics |-> add_prefix(_evaluate_once(L).metrics, "fix_subnet")]
    ELSE IF L.has_sample_kinds THEN EvaluateKinds(L)
    ELSE [calls |-> <<>>, metrics |-> EmptyDict]

\* SubnetExportValLoop.run
run(L) ==
    LET body == RunBranches(L)
    IN  [calls |-> <<CallWith("call_hook", "before_val"),
                     CallWith("call_hook", "before_val_epoch")>>
                   \o body.calls
                   \o <<CallWith("call_hook", "after_val_epoch"),
                        CallWith("call_hook", "after_val")>>,
         metrics |-> body.metrics]

SampleKinds == {"max", "min", "random0", "other"}
SampleKindLists ==
    UNION {[1..n -> SampleKinds] : n \in 0..MaxKinds}

CalibrateSampleNums == {-1, 0, 4096}

\* the loop as __init__ leaves it, with what the runner and its model are
Loops ==
    {[distributed |-> d, evaluate_fixed_subnet |-> f, calibrate_sample_num |-> n,
      is_supernet |-> s, has_sample_kinds |-> h, sample_kinds |-> k,
      n_batches |-> b, op |-> "none", calls |-> <<>>, metrics |-> EmptyDict] :
        d \in BOOLEAN, f \in BOOLEAN, n \in CalibrateSampleNums, s \in BOOLEAN,
        h \in BOOLEAN, k \in SampleKindLists, b \in 0..MaxBatches}

InitLoop ==
    /\ loop \in Loops
    /\ ~loop.has_sample_kinds => loop.sample_kinds = <<>>

IdleLoop ==
    loop = [distributed |-> FALSE, evaluate_fixed_subnet |-> FALSE,
            calibrate_sample_num |-> 4096, is_supernet |-> TRUE,
            has_sample_kinds |-> FALSE, sample_kinds |-> <<>>,
            n_batches |-> 0, op |-> "none", calls |-> <<>>, metrics |-> EmptyDict]

Run ==
    /\ loop.op = "none"
    /\ loop' = [loop EXCEPT !.op = "run", !.calls = run(loop).calls,
                            !.metrics = run(loop).metrics]
    /\ UNCHANGED <<treeVars, convVars, quantVars, counterVars, strVars, floatVars>>

EvaluateOnce ==
    /\ loop.op = "none"
    /\ loop' = [loop EXCEPT !.op = "_evaluate_once",
                            !.calls = _evaluate_once(loop).calls,
                            !.metrics = _evaluate_once(loop).metrics]
    /\ UNCHANGED <<treeVars, convVars, quantVars, counterVars, strVars, floatVars>>

NextLoop ==
    \/ Run
    \/ EvaluateOnce

--------------------------------------------------------------------------
(***************************************************************************)
(* Class lookup by dotted name:                                            *)
(*   mmrazor/models/utils/quantization_util.py                             *)
(* A string is carried by its components between the dots, so that         *)
(* s.split('.') is the sequence of components; a value that is not a str   *)
(* has no components.                                                      *)
(***************************************************************************)
\* longest list or tuple handed to str2class
MaxNames == 2

Str(parts) == [is_str |-> TRUE, parts |-> parts]
NotAStr == [is_str |-> FALSE, parts |-> <<>>]

\* the modules that can be imported, and the attributes they have
Importable == {<<"torch", "nn">>, <<"mmrazor", "models">>}
Attributes(mod) ==
    IF mod = <<"torch", "nn">>
    THEN [a \in {"Conv2d", "Linear", "functional"} |->
            IF a = "functional" THEN "module" ELSE "type"]
    ELSE [a \in {"BigNasConv2d"} |-> "type"]

ImportRaised(exc) == [status |-> exc]
Imported(value) == [status |-> "returned", value |-> value]

\* the class object a module attribute is
Class(mod, name) == [module |-> mod, name |-> name]

\* _check_valid_source(source) followed by the import and the getattr
ImportClass(s_class) ==
    IF ~s_class.is_str THEN ImportRaised("TypeError")
    ELSE IF ~(Len(s_class.parts) > 1) THEN ImportRaised("AssertionError")
    ELSE LET mod_str == SubSeq(s_class.parts, 1, Len(s_class.parts) - 1)
             cls_str == s_class.parts[Len(s_class.parts)]
         IN  IF mod_str \notin Importable THEN ImportRaised("ImportError")
             ELSE IF cls_str \notin DOMAIN Attributes(mod_str)
             THEN ImportRaised("AttributeError")
             ELSE IF Attributes(mod_str)[cls_str] # "type" THEN ImportRaised("TypeError")
             ELSE Imported(Class(mod_str, cls_str))

\* the loop of str2class: the classes appended until a name fails
ImportAll(str_inputs_list) ==
    LET n == Len(str_inputs_list)
        acc[i \in 0..n] ==
            IF i = 0 THEN Imported(<<>>)
            ELSE IF acc[i - 1].status # "returned" THEN acc[i - 1]
            ELSE LET one == ImportClass(str_inputs_list[i])
                 IN  IF one.status # "returned" THEN one
                     ELSE Imported(Append(acc[i - 1].value, one.value))
    IN  acc[n]

Str2ClassAlwaysList(str_inputs) ==
    LET clss == ImportAll(IF str_inputs.type \in {"tuple", "list"}
                          THEN str_inputs.value ELSE <<str_inputs.value>>)
    IN  IF clss.status # "returned" THEN clss
        ELSE [status |-> "returned", type |-> "list", value |-> clss.value]

\* str2class(str_inputs): a value is carried with its python type
str2class(str_inputs) ==
    LET str_inputs_list == IF str_inputs.type \notin {"tuple", "list"}
                           THEN <<str_inputs.value>> ELSE str_inputs.value
        clss == ImportAll(str_inputs_list)
    IN  IF clss.status # "returned" THEN clss
        ELSE IF str_inputs.type = "list"
        THEN [status |-> "returned", type |-> "list", value |-> clss.value]
        ELSE IF str_inputs.type = "tuple"
        THEN [status |-> "returned", type |-> "tuple", value |-> clss.value]
        ELSE [status |-> "returned", type |-> "type", value |-> clss.value[1]]

\* the values str2class is called with
Names ==
    {Str(<<"torch", "nn", "Conv2d">>), Str(<<"torch", "nn", "Linear">>),
     Str(<<"mmrazor", "models", "BigNasConv2d">>),
     Str(<<"torch", "nn", "functional">>), Str(<<"torch", "nn", "Missing">>),
     Str(<<"nomodule", "Thing">>), Str(<<"Conv2d">>), NotAStr}

NameLists == UNION {[1..n -> Names] : n \in 0..MaxNames}

StrInputs ==
    {[type |-> t, value |-> v] : t \in {"list", "tuple"}, v \in NameLists}
    \cup {[type |-> IF v.is_str THEN "str" ELSE "int", value |-> v] : v \in Names}

NoImport == [op |-> "none"]

Str2Class ==
    \E str_inputs \in StrInputs :
        /\ imported' = [op |-> "str2class", str_inputs |-> str_inputs,
                        ret |-> str2class(str_inputs)]
        /\ UNCHANGED <<treeVars, convVars, quantVars, counterVars, loopVars, floatVars>>

NextStr == Str2Class

--------------------------------------------------------------------------
(***************************************************************************)
(* Construction of a QAT module from a float module, under the             *)
(* substituted BN class map:                                               *)
(*   substitute_bn_class_map, DynamicQConvBn2d.__init__, from_float        *)
(* Mutables are objects: a module's mutable_attrs maps an attribute name   *)
(* to the identity of a mutable, and the mask of a mutable is looked up    *)
(* in `mutables` by that identity.                                         *)
(***************************************************************************)
\* deepest nesting of `with substitute_bn_class_map():` blocks followed
MaxNest == 2

\* torch.nn.intrinsic.qat's _BN_CLASS_MAP as torch defines it
TorchBnClassMap ==
    [d \in 1..3 |-> IF d = 1 THEN "nn.BatchNorm1d"
                    ELSE IF d = 2 THEN "nn.BatchNorm2d" ELSE "nn.BatchNorm3d"]

DynamicBnClassMap ==
    [d \in 1..3 |-> IF d = 1 THEN "DynamicBatchNorm1d"
                    ELSE IF d = 2 THEN "DynamicBatchNorm2d" ELSE "DynamicBatchNorm3d"]

\* copy.deepcopy of the dict: classes are copied as themselves
DeepCopy(map) == [k \in DOMAIN map |-> map[k]]

\* substitute_bn_class_map up to the yield: the three assignments
Substituted(map) == Update(map, DynamicBnClassMap)

SubstituteExitKeeps(map, org_bn_class_map) == map

\* substitute_bn_class_map after the yield: clear(), then update(org)
SubstituteExit(map, org_bn_class_map) ==
    LET cleared == EmptyDict
    IN  Update(cleared, org_bn_class_map)

\* DynamicMixin.register_mutable_attr(attr, mutable): the mutable itself is kept
register_mutable_attr(mutable_attrs, attr, mutable) ==
    [a \in DOMAIN mutable_attrs \cup {attr} |->
        IF a = attr THEN mutable ELSE mutable_attrs[a]]

\* the `for attr, value in src.items(): dst.register_mutable_attr(attr, value)` loop
RegisterAll(dst, src) ==
    [a \in DOMAIN dst \cup DOMAIN src |-> IF a \in DOMAIN src THEN src[a] ELSE dst[a]]

NoBnModule == [cls |-> "None", mutable_attrs |-> <<>>]

\* cls.__init__ as reached from the base class from_float: the bn is built from
\* _BN_CLASS_MAP inside the with block, mutable_attrs starts empty
QatInit(cls, map) ==
    [cls |-> cls, mutable_attrs |-> <<>>,
     bn |-> IF cls = "DynamicQConvReLU2d" THEN NoBnModule
            ELSE [cls |-> Substituted(map)[2], mutable_attrs |-> <<>>]]

FromFloatConvOnly(cls, mod, map) ==
    LET qat_conv == QatInit(cls, map)
    IN  [qat_conv EXCEPT !.mutable_attrs = RegisterAll(@, mod[1].mutable_attrs)]

\* DynamicQConvBn2d.from_float / DynamicQConvReLU2d.from_float
from_float(cls, mod, map) ==
    LET qat_conv == QatInit(cls, map)
        with_conv == [qat_conv EXCEPT
                        !.mutable_attrs = RegisterAll(@, mod[1].mutable_attrs)]
    IN  IF cls = "DynamicQConvReLU2d" THEN with_conv
        ELSE [with_conv EXCEPT
                !.bn.mutable_attrs = RegisterAll(@, mod[2].mutable_attrs)]

\* _BN_CLASS_MAP after cls.__init__ has left its with block
MapAfterInit(cls, map) ==
    IF cls = "DynamicQConvReLU2d" THEN map
    ELSE SubstituteExit(Substituted(map), DeepCopy(map))

\* identities of the mutables of a layer
MutableIds == 1..3
IdOf(attr) == IF attr = "in_channels" THEN 1
              ELSE IF attr = "out_channels" THEN 2 ELSE 3

\* float modules <<conv, bn>> / <<conv, relu>> with some attributes mutable
FloatModules ==
    {<<[cls |-> "BigNasConv2d",
        mutable_attrs |-> [a \in conv_attrs |-> IdOf(a)]],
       [cls |-> "DynamicBatchNorm2d",
        mutable_attrs |-> [a \in bn_attrs |-> IdOf(a)]]>> :
        conv_attrs \in SUBSET {"in_channels", "out_channels"},
        bn_attrs \in SUBSET {"num_features"}}

NoQat == [cls |-> "None"]
NoEvent == [ev |-> "none"]

InitFloat ==
    /\ bn_class_map = TorchBnClassMap
    /\ frames = <<>>
    /\ mutables = [i \in MutableIds |-> Ones(MaxCh)]
    /\ \E mod \in FloatModules : floats = [mod |-> mod, qat |-> NoQat, event |-> NoEvent]

IdleFloat ==
    /\ bn_class_map = TorchBnClassMap
    /\ frames = <<>>
    /\ mutables = [i \in MutableIds |-> Ones(MaxCh)]
    /\ floats = [mod |-> <<[cls |-> "BigNasConv2d", mutable_attrs |-> <<>>],
                           [cls |-> "DynamicBatchNorm2d", mutable_attrs |-> <<>>]>>,
                 qat |-> NoQat, event |-> NoEvent]

\* `with substitute_bn_class_map():` is entered
EnterSubstitute ==
    /\ Len(frames) < MaxNest
    /\ frames' = Append(frames, [org_bn_class_map |-> DeepCopy(bn_class_map)])
    /\ bn_class_map' = Substituted(bn_class_map)
    /\ floats' = [floats EXCEPT !.event = [ev |-> "enter", before |-> bn_class_map]]
    /\ UNCHANGED <<mutables, treeVars, convVars, quantVars, counterVars, loopVars, strVars>>

\* the body of the innermost block ends normally
ExitSubstitute ==
    /\ Len(frames) > 0
    /\ bn_class_map' = SubstituteExit(bn_class_map,
                                      frames[Len(frames)].org_bn_class_map)
    /\ frames' = SubSeq(frames, 1, Len(frames) - 1)
    /\ floats' = [floats EXCEPT !.event =
                    [ev |-> "exit", before |-> frames[Len(frames)].org_bn_class_map]]
    /\ UNCHANGED <<mutables, treeVars, convVars, quantVars, counterVars, loopVars, strVars>>

\* the body of the innermost block raises: the generator is not resumed
RaiseInSubstitute ==
    /\ Len(frames) > 0
    /\ frames' = SubSeq(frames, 1, Len(frames) - 1)
    /\ floats' = [floats EXCEPT !.event =
                    [ev |-> "raise", before |-> frames[Len(frames)].org_bn_class_map]]
    /\ UNCHANGED <<bn_class_map, mutables, treeVars, convVars, quantVars, counterVars,
                   loopVars, strVars>>

\* cls.from_float(mod), whose __init__ opens and leaves a with block of its own
FromFloat ==
    \E cls \in QConvClasses :
        /\ floats' = [floats EXCEPT
                        !.qat = from_float(cls, floats.mod, bn_class_map),
                        !.event = [ev |-> "from_float", before |-> bn_class_map]]
        /\ bn_class_map' = MapAfterInit(cls, bn_class_map)
        /\ UNCHANGED <<frames, mutables, treeVars, convVars, quantVars, counterVars,
                       loopVars, strVars>>

\* the mutator changes the current choice of a mutable of the float module
SetMutableChoice ==
    \E i \in MutableIds, mask \in Masks(MaxCh) :
        /\ mutables[i] # mask
        /\ mutables' = [mutables EXCEPT ![i] = mask]
        /\ floats' = [floats EXCEPT !.event = [ev |-> "set_choice", before |-> bn_class_map]]
        /\ UNCHANGED <<bn_class_map, frames, treeVars, convVars, quantVars, counterVars,
                       loopVars, strVars>>

NextFloat ==
    \/ EnterSubstitute
    \/ ExitSubstitute
    \/ RaiseInSubstitute
    \/ FromFloat
    \/ SetMutableChoice

--------------------------------------------------------------------------
(***************************************************************************)
(* Conversion of a module tree to static operators:                        *)
(*   traverse_children in dynamic_qconv_fused.py                           *)
(* Modules are objects: `mods` holds them by identity (their index), a     *)
(* child dict maps a name to the identity of a module, and d is the child  *)
(* dict traverse_children is called on (owner 0).                          *)
(***************************************************************************)
\* largest number of modules of a tree before it is traversed
MaxModules == 3

\* isinstance(mutable, DynamicMixin)
IsDynamic(module) == module.kind # "static"

\* the child dict owned by a module, or d itself for owner 0
Dict(h, owner) == IF owner = 0 THEN h.d ELSE h.mods[owner].children

\* module[name] = value
SetItem(h, owner, name, value) ==
    IF owner = 0 THEN [h EXCEPT !.d[name] = value]
    ELSE [h EXCEPT !.mods[owner].children[name] = value]

\* the names of a dict in the order items() yields them
RECURSIVE Ordered(_)
Ordered(names) ==
    IF names = {} THEN <<>>
    ELSE LET first == CHOOSE n \in names : \A o \in names : n <= o
         IN  <<first>> \o Ordered(names \ {first})

Items(h, owner) == Ordered(DOMAIN Dict(h, owner))

StaticLeaf(made_of) == [kind |-> "static", children |-> <<>>, made_of |-> made_of]

\* to_static_op of a dynamic op of this file: the static op, followed by the
\* submodules it is built of (conv, bn, relu, fake quantizer), all made anew
StaticOpOfDynamicOp(h, mutable) ==
    LET old == h.mods[mutable]
        names == Ordered(DOMAIN old.children)
        new == Len(h.mods) + 1
        rank(name) == CHOOSE r \in 1..Len(names) : names[r] = name
    IN  <<[kind |-> "static",
           children |-> [name \in DOMAIN old.children |-> new + rank(name)],
           made_of |-> mutable]>>
        \o [r \in 1..Len(names) |-> StaticLeaf(0)]

\* to_static_op of a dynamic container: a static container of the modules the
\* dynamic one holds
StaticOpOfContainer(h, mutable) ==
    <<[kind |-> "static", children |-> h.mods[mutable].children,
       made_of |-> mutable]>>

\* mutable.to_static_op(): the new modules, the static op first
StaticOpOf(h, mutable) ==
    IF h.mods[mutable].kind = "dynamic_container"
    THEN StaticOpOfContainer(h, mutable)
    ELSE StaticOpOfDynamicOp(h, mutable)

\* the first statement of the loop body
ReplaceIfDynamic(h, owner, name) ==
    LET mutable == Dict(h, owner)[name]
    IN  IF IsDynamic(h.mods[mutable])
        THEN SetItem([h EXCEPT !.mods = @ \o StaticOpOf(h, mutable)],
                     owner, name, Len(h.mods) + 1)
        ELSE h

\* traverse_children(module), module being the child dict of owner; names are
\* the items still to come
RECURSIVE traverse_children(_, _, _)
traverse_children(h, owner, names) ==
    IF names = <<>> THEN h
    ELSE LET name == Head(names)
             mutable == Dict(h, owner)[name]
             replaced == ReplaceIfDynamic(h, owner, name)
             below == traverse_children(replaced, mutable, Items(replaced, mutable))
         IN  traverse_children(below, owner, Tail(names))

ModuleKinds == {"static", "dynamic_op", "dynamic_container"}

\* the trees of n modules: module i hangs under the name i in the child dict
\* of parent[i], an earlier module or d
Trees(n) ==
    {[mods |-> [i \in 1..n |->
                  [kind |-> kinds[i],
                   children |-> [c \in {j \in 1..n : parent[j] = i} |-> c],
                   made_of |-> 0]],
      d |-> [c \in {j \in 1..n : parent[j] = 0} |-> c]] :
        kinds \in [1..n -> ModuleKinds],
        parent \in {p \in [1..n -> 0..(n - 1)] : \A i \in 1..n : p[i] < i}}

NoTree == [mods |-> <<>>, d |-> <<>>]

InitTree ==
    \E n \in 1..MaxModules : \E t \in Trees(n) :
        tree = [op |-> "none", before |-> t, mods |-> t.mods, d |-> t.d]

IdleTree == tree = [op |-> "none", before |-> NoTree, mods |-> <<>>, d |-> <<>>]

TraverseChildren ==
    /\ tree.op = "none"
    /\ LET h == traverse_children([mods |-> tree.mods, d |-> tree.d], 0,
                                  Items(tree, 0))
       IN  tree' = [tree EXCEPT !.op = "traverse_children",
                                !.mods = h.mods, !.d = h.d]
    /\ UNCHANGED <<convVars, quantVars, counterVars, loopVars, strVars, floatVars>>

NextTree == TraverseChildren

--------------------------------------------------------------------------
(***************************************************************************)
(* Specifications.  Spec runs the dynamic QAT conv module; SpecQuant       *)
(* builds the backend config and then runs the fuser methods.              *)
(* SpecCounter, SpecLoop, SpecStr, SpecFloat and SpecTree run the          *)
(* norm-layer counters, the validation loop, str2class, from_float and     *)
(* traverse_children, each with the rest of the program at rest.           *)
(***************************************************************************)
IdleQConv == InitQConv("DynamicQConvBn2d", FALSE, FALSE, 1, FALSE,
                       [c \in Channels |-> 1], [c \in Channels |-> 0])

IdleConv == qconv = IdleQConv /\ last = NoCall
IdleQuant == backend = InitBackend /\ fused = NoFuse
IdleStr == imported = NoImport

Init ==
    /\ InitConv
    /\ backend = InitBackend
    /\ fused = NoFuse
    /\ IdleCounter /\ IdleLoop /\ IdleStr /\ IdleFloat /\ IdleTree

Spec == Init /\ [][Next]_vars

InitQuant ==
    /\ qconv = IdleQConv
    /\ last = NoCall
    /\ backend = InitBackend
    /\ fused = NoFuse
    /\ IdleCounter /\ IdleLoop /\ IdleStr /\ IdleFloat /\ IdleTree

SpecQuant == InitQuant /\ [][NextQuant]_vars

\* the FLOPs / params counters of normalization layers
InitCounterOnly ==
    /\ IdleConv
    /\ IdleQuant
    /\ InitCounter
    /\ IdleLoop
    /\ IdleStr
    /\ IdleFloat
    /\ IdleTree

SpecCounter == InitCounterOnly /\ [][NextCounter]_vars

\* the subnet validation loop
InitLoopOnly ==
    /\ IdleConv
    /\ IdleQuant
    /\ IdleCounter
    /\ InitLoop
    /\ IdleStr
    /\ IdleFloat
    /\ IdleTree

SpecLoop == InitLoopOnly /\ [][NextLoop]_vars

\* str2class
InitStrOnly ==
    /\ IdleConv
    /\ IdleQuant
    /\ IdleCounter
    /\ IdleLoop
    /\ IdleStr
    /\ IdleFloat
    /\ IdleTree

SpecStr == InitStrOnly /\ [][NextStr]_vars

\* from_float and substitute_bn_class_map
InitFloatOnly ==
    /\ IdleConv
    /\ IdleQuant
    /\ IdleCounter
    /\ IdleLoop
    /\ IdleStr
    /\ InitFloat
    /\ IdleTree

SpecFloat == InitFloatOnly /\ [][NextFloat]_vars

\* traverse_children
InitTreeOnly ==
    /\ IdleConv
    /\ IdleQuant
    /\ IdleCounter
    /\ IdleLoop
    /\ IdleStr
    /\ IdleFloat
    /\ InitTree

SpecTree == InitTreeOnly /\ [][NextTree]_vars

--------------------------------------------------------------------------
(***************************************************************************)
(* Properties of the dynamic QAT conv module (checked under Spec).         *)
(***************************************************************************)
Registered(attr) == attr \in DOMAIN qconv.mutable_attrs

\* number of active output / input channels of qconv
ActiveOut == IF Registered("out_channels")
             THEN MaskSum(qconv.mutable_attrs["out_channels"]) ELSE qconv.out_channels
ActiveIn == IF Registered("in_channels")
            THEN MaskSum(qconv.mutable_attrs["in_channels"]) ELSE qconv.in_channels

ReturnedStatic == last.op = "to_static_op" /\ last.ret.status = "ok"

C2_OutMaskAndPadding ==
    /\ last.op = "get_dynamic_params" =>
        /\ last.ret.padding = qconv.padding
        /\ Registered("out_channels") =>
               last.ret.out_mask = qconv.mutable_attrs["out_channels"]
        /\ ~Registered("out_channels") =>
               /\ last.ret.out_mask = [i \in 1..qconv.out_channels |-> TRUE]
               /\ Len(last.ret.weight) = qconv.out_channels
               /\ last.ret.bias = qconv.bias
    /\ (last.op \in {"_forward_approximate", "_forward_slow"}
            /\ ~Registered("out_channels")) =>
        last.out_mask = [i \in 1..qconv.out_channels |-> TRUE]

\* C2 witness: no mutable out_channels, but a mutable in_channels that slices
C2_Witness ==
    /\ last.op = "get_dynamic_params"
    /\ ~Registered("out_channels")
    /\ Registered("in_channels") /\ ActiveIn < qconv.in_channels
    /\ qconv.groups = 1 /\ qconv.has_bias

\* number of calls of fn in a call log, and the positions of those calls
Calls(log, fn) == {i \in 1..Len(log) : log[i].fn = fn}

ForwardReturned(op) == last.op = op /\ last.status = "ok"

\* C3: every _forward_approximate that returns has called the convolution
\* function exactly once and the BN module exactly once, the BN after the
\* convolution (training or eval, conv bias or none).
C3_ApproximateOnePass ==
    ForwardReturned("_forward_approximate") =>
        /\ Cardinality(Calls(last.calls, "conv_func")) = 1
        /\ Cardinality(Calls(last.calls, "bn")) = 1
        /\ \A i \in Calls(last.calls, "conv_func"), j \in Calls(last.calls, "bn") : i < j

\* C3 witness: an approximate forward in eval mode of a module with a conv bias
C3_Witness ==
    /\ ForwardReturned("_forward_approximate")
    /\ ~qconv.bn.training /\ qconv.has_bias

\* C4 as stated: every _forward_slow calls the convolution exactly twice.
C4_SlowAlwaysTwoPasses ==
    ForwardReturned("_forward_slow") =>
        Cardinality(Calls(last.calls, "conv_func")) = 2

\* C4 as amended: a _forward_slow calls the convolution exactly twice when the
\* BN is in training mode (statistics pass, then fused pass) and exactly once
\* when the BN is in eval mode (fused pass alone).
C4_SlowPassesByMode ==
    ForwardReturned("_forward_slow") =>
        /\ qconv.bn.training => Cardinality(Calls(last.calls, "conv_func")) = 2
        /\ ~qconv.bn.training => Cardinality(Calls(last.calls, "conv_func")) = 1
        /\ Cardinality(Calls(last.calls, "bn")) = (IF qconv.bn.training THEN 1 ELSE 0)

\* C4 witness: a slow forward with the BN in training mode
C4_Witness ==
    /\ ForwardReturned("_forward_slow")
    /\ qconv.bn.training

\* the channels of qconv that are active, in order
ActiveOutChannels ==
    IF Registered("out_channels")
    THEN SelectSeq([i \in 1..qconv.out_channels |-> i],
                   LAMBDA i : qconv.mutable_attrs["out_channels"][i])
    ELSE [i \in 1..qconv.out_channels |-> i]

\* C5: every division of a _forward_slow has running_std or batch_std as its
\* divisor, and the divisor is nonzero on every channel (eps > 0), whatever
\* bn.weight is; _forward_approximate divides the convolution output by
\* scale_factor, which is zero exactly on the active channels whose bn.weight
\* is zero.
C5_SlowNeverDividesByWeight ==
    /\ ForwardReturned("_forward_slow") =>
        /\ Len(last.divisions) >= 2
        /\ \A i \in 1..Len(last.divisions) :
            /\ last.divisions[i].divisor \in {"running_std", "batch_std"}
            /\ \A c \in 1..Len(last.divisions[i].zero) : ~last.divisions[i].zero[c]
    /\ ForwardReturned("_forward_approximate") =>
        \E i \in 1..Len(last.divisions) :
            /\ last.divisions[i].divisor = "scale_factor"
            /\ last.divisions[i].expr = "conv / scale_factor"
            /\ Len(last.divisions[i].zero) = Len(ActiveOutChannels)
            /\ \A k \in 1..Len(ActiveOutChannels) :
                   last.divisions[i].zero[k] <=> (qconv.bn.weight[ActiveOutChannels[k]] = 0)

\* C5 witness: a slow forward in training mode with an active channel whose
\* bn.weight is zero
C5_Witness ==
    /\ ForwardReturned("_forward_slow")
    /\ qconv.bn.training
    /\ \E k \in 1..Len(ActiveOutChannels) : qconv.bn.weight[ActiveOutChannels[k]] = 0

\* the weight handed to the last convolution call of a forward
FusedConvWeight == last.calls[CHOOSE i \in Calls(last.calls, "conv_func") :
                                  \A j \in Calls(last.calls, "conv_func") : j <= i].weight

\* fake_quant(r * W / running_std), sliced to the active channels
QuantizedScaledWeight ==
    get_dynamic_params(qconv,
                       FakeQuant(ScaleRows(qconv.weight, ScaleFactor(qconv.bn))),
                       qconv.bias).weight

\* C6: in _forward_slow the weight of the fused convolution is
\* fake_quant(r * W / running_std): the weight is scaled first and fake
\* quantized afterwards.
C6_SlowQuantizesScaledWeight ==
    ForwardReturned("_forward_slow") => FusedConvWeight = QuantizedScaledWeight

\* what _forward_approximate does, for comparison: it holds of that method
C6_ApproximateQuantizesScaledWeight ==
    ForwardReturned("_forward_approximate") => FusedConvWeight = QuantizedScaledWeight

--------------------------------------------------------------------------
(***************************************************************************)
(* Properties of the backend config and the fuser methods (SpecQuant).     *)
(***************************************************************************)
Entries(configs) == {configs[i] : i \in 1..Len(configs)}

IsFusion(c) == Len(c.pattern) > 1 /\ c.fuser_method # None

\* float -> fused -> QAT is closed within a list of configs with the given root
ChainClosed(configs, root) ==
    /\ \A c \in Entries(configs) :
           IsFusion(c) =>
               \E d \in Entries(configs) :
                   d.pattern = <<c.fused_module>> /\ d.qat_module # None
    /\ \A c \in Entries(configs) :
           c.qat_module # None =>
               \E d \in Entries(configs) :
                   d.pattern = <<c.qat_module>> /\ d.root_module = root

\* the same of the configs a BackendConfig keeps, for the patterns of a list
ChainClosedInstalled(installed, configs, root) ==
    /\ \A c \in Entries(configs) :
           IsFusion(c) =>
               /\ <<c.fused_module>> \in DOMAIN installed
               /\ installed[<<c.fused_module>>].qat_module # None
    /\ \A p \in DOMAIN installed :
           (installed[p] \in Entries(configs) /\ installed[p].qat_module # None) =>
               /\ <<installed[p].qat_module>> \in DOMAIN installed
               /\ installed[<<installed[p].qat_module>>].root_module = root

\* C7: in the configs of _get_dynamicconv_configs and _get_dynamiclinear_configs,
\* and in the BackendConfig get_weightonly_backend_config builds from them, every
\* fused module a fusion pattern names has a config naming a QAT module, and
\* every QAT module named has a config whose root module is BigNasConv2d (conv
\* family) or DynamicLinear (linear family).
C7_ChainClosed ==
    BackendDone =>
        /\ ChainClosed(_get_dynamicconv_configs, "BigNasConv2d")
        /\ ChainClosed(_get_dynamiclinear_configs, "DynamicLinear")
        /\ ChainClosedInstalled(backend.installed, _get_dynamicconv_configs, "BigNasConv2d")
        /\ ChainClosedInstalled(backend.installed, _get_dynamiclinear_configs,
                                "DynamicLinear")

\* C7 witness: the backend config is complete and holds the fused conv-bn
\* module with its QAT module
C7_Witness ==
    /\ BackendDone
    /\ <<"DynamicConvBn2d">> \in DOMAIN backend.installed
    /\ backend.installed[<<"DynamicConvBn2d">>].qat_module = "DynamicQConvBn2d"
    /\ backend.installed[<<"DynamicQConvBn2d">>].root_module = "BigNasConv2d"

\* the configs of _get_dynamicconv_configs that have been set so far
DynamicConvSet ==
    LET first == Len(_get_conv_configs) + Len(_get_linear_configs)
    IN  {i \in 1..Len(_get_dynamicconv_configs) : first + i < backend.pc}

Settings == {"observation_type", "root_module", "qat_module", "fuser_method",
             "fused_module", "dtype_configs"}

\* the value of one setting of a config
Setting(c, f) ==
    CASE f = "observation_type" -> c.observation_type
      [] f = "root_module" -> c.root_module
      [] f = "qat_module" -> c.qat_module
      [] f = "fuser_method" -> c.fuser_method
      [] f = "fused_module" -> c.fused_module
      [] f = "dtype_configs" -> c.dtype_configs

\* C8: each pattern is configured at most once in the list of
\* _get_dynamicconv_configs, and the config the BackendConfig keeps for a pattern
\* contains every setting made for that pattern.
C8_EachPatternOnce ==
    /\ \A i, j \in DynamicConvSet :
           i # j => _get_dynamicconv_configs[i].pattern # _get_dynamicconv_configs[j].pattern
    /\ \A i \in DynamicConvSet :
           LET c == _get_dynamicconv_configs[i] IN
           \A f \in Settings :
               Setting(c, f) # None => Setting(backend.installed[c.pattern], f) = Setting(c, f)

BnConditions(conv, bn) ==
    /\ bn.num_features = conv.out_channels
    /\ bn.affine
    /\ bn.track_running_stats

Called(fn) == fused.fn = fn

\* C9: fuse_dynamic_conv_bn fails with an assertion error when conv and bn are
\* in different modes; with is_qat it returns DynamicConvBn2d(conv, bn) exactly
\* when the three BN conditions hold and type(conv) is exactly BigNasConv2d,
\* fails with an assertion error when a BN condition is violated and raises
\* NotImplementedError when only the type is wrong (a subclass included);
\* without is_qat it returns fuse_conv_bn_eval(conv, bn) for any conv type and
\* checks none of the BN conditions.
C9_FuseConvBn ==
    Called("fuse_dynamic_conv_bn") =>
        LET conv == fused.conv
            bn == fused.bn
            out == fused.out
            dynamic == [kind |-> "DynamicConvBn2d", modules |-> <<conv, bn>>]
        IN  /\ conv.training # bn.training => out = Raised("AssertionError")
            /\ (conv.training = bn.training /\ fused.is_qat) =>
                /\ out = Returned(dynamic) <=>
                       (BnConditions(conv, bn) /\ conv.type = "BigNasConv2d")
                /\ ~BnConditions(conv, bn) => out = Raised("AssertionError")
                /\ (BnConditions(conv, bn) /\ conv.type # "BigNasConv2d") =>
                       out = Raised("NotImplementedError")
            /\ (conv.training = bn.training /\ ~fused.is_qat) =>
                   out = Returned([kind |-> "fuse_conv_bn_eval", modules |-> <<conv, bn>>])

\* C9 witness: QAT fusion of a subclass of BigNasConv2d with a fitting BN
C9_Witness ==
    /\ Called("fuse_dynamic_conv_bn")
    /\ fused.is_qat /\ fused.conv.training = fused.bn.training
    /\ BnConditions(fused.conv, fused.bn)
    /\ fused.conv.type = "BigNasConv2dSubclass"
    /\ fused.out.raised = "NotImplementedError"

SameMode(conv, bn, relu) == conv.training = bn.training /\ bn.training = relu.training

\* what C9 and C10 say of a BigNasConv2d, and of different modes
FuseConvBnReluOfBigNas ==
    LET conv == fused.conv
        bn == fused.bn
        relu == fused.relu
        out == fused.out
    IN  /\ ~SameMode(conv, bn, relu) => out = Raised("AssertionError")
        /\ (SameMode(conv, bn, relu) /\ conv.type = "BigNasConv2d" /\ fused.is_qat) =>
               IF BnConditions(conv, bn)
               THEN out = Returned([kind |-> "DynamicConvBnReLU2d",
                                    modules |-> <<conv, bn, relu>>])
               ELSE out = Raised("AssertionError")
        /\ (SameMode(conv, bn, relu) /\ conv.type = "BigNasConv2d" /\ ~fused.is_qat) =>
               out = Returned([kind |-> "DynamicConvReLU2d",
                               modules |-> <<[kind |-> "fuse_conv_bn_eval",
                                              modules |-> <<conv, bn>>], relu>>])

\* C10 as stated: modes must agree (assertion error); a BigNasConv2d gives
\* DynamicConvBnReLU2d with is_qat (assertion error unless the BN conditions
\* hold) and DynamicConvReLU2d without; in both modes a conv of any other exact
\* type raises NotImplementedError and no fused module is returned.
C10_OtherTypeNotImplemented ==
    Called("fuse_dynamic_conv_bn_relu") =>
        /\ FuseConvBnReluOfBigNas
        /\ (SameMode(fused.conv, fused.bn, fused.relu) /\ fused.conv.type # "BigNasConv2d") =>
               fused.out = Raised("NotImplementedError")

\* C10 as amended: as stated, except that with is_qat a violated BN condition
\* raises the assertion error before the type of the conv is looked at; a conv
\* of another exact type raises NotImplementedError with is_qat when the BN
\* conditions hold and always without is_qat, and never yields a fused module.
C10_OtherTypeNeverFused ==
    Called("fuse_dynamic_conv_bn_relu") =>
        /\ FuseConvBnReluOfBigNas
        /\ (SameMode(fused.conv, fused.bn, fused.relu) /\ fused.conv.type # "BigNasConv2d") =>
               /\ fused.out.returned = NoModule
               /\ fused.out.raised =
                      (IF fused.is_qat /\ ~BnConditions(fused.conv, fused.bn)
                       THEN "AssertionError" ELSE "NotImplementedError")

\* C10 witness: QAT fusion of a conv of another type with a BN that is not affine
C10_Witness ==
    /\ Called("fuse_dynamic_conv_bn_relu")
    /\ SameMode(fused.conv, fused.bn, fused.relu)
    /\ fused.is_qat /\ fused.conv.type = "nn.Conv2d" /\ ~fused.bn.affine
    /\ fused.bn.num_features = fused.conv.out_channels /\ fused.bn.track_running_stats

--------------------------------------------------------------------------
(***************************************************************************)
(* Properties of the norm-layer counters (checked under SpecCounter).      *)
(***************************************************************************)
\* get_model_parameters_number of a norm layer: weight and bias when affine
ParameterCount(module) == IF module.affine THEN 2 * module.num_features ELSE 0

Doubled(flops, affine) == IF affine THEN 2 * flops ELSE flops

\* C11: every call of BNCounter.add_count_hook increases module.__flops__ by the
\* product of the input's dimensions, doubled when the module is affine, and
\* module.__params__ by the parameter count of the module.
C11_BNCounterCounts ==
    hook.counter = "BNCounter" =>
        /\ norm.flops = hook.flops_before + Doubled(Prod(hook.shape), norm.affine)
        /\ norm.params = hook.params_before + ParameterCount(norm)

\* C12: for an input of shape (B, C, H, W) DMCPBatchNorm2dCounter.add_count_hook
\* increases __flops__ by B*C'*H*W, doubled when affine, where C' is the
\* activated_tensor_channels of the first mutable channel when it has one and C
\* otherwise, and __params__ by 2 * activated_channels; neither counter decreases.
C12_DMCPCounts ==
    hook.counter = "DMCPBatchNorm2dCounter" /\ hook.status = "ok" =>
        LET mu == norm.mutable_attrs["num_features"]
            C == IF mu.has_atc THEN mu.atc ELSE hook.shape[2]
        IN  /\ norm.flops = hook.flops_before
                  + Doubled(hook.shape[1] * C * hook.shape[3] * hook.shape[4],
                            norm.affine)
            /\ norm.params = hook.params_before + 2 * MaskSum(mu.mask)
            /\ norm.flops >= hook.flops_before
            /\ norm.params >= hook.params_before

\* a second call on an affine dynamic BN whose first mutable channel reports a
\* channel number different from the input's
C12_Witness ==
    /\ hook.counter = "DMCPBatchNorm2dCounter" /\ hook.status = "ok"
    /\ norm.calls = 2 /\ norm.affine
    /\ norm.mutable_attrs["num_features"].has_atc
    /\ norm.mutable_attrs["num_features"].atc # hook.shape[2]
    /\ hook.flops_before > 0 /\ norm.flops > hook.flops_before
    /\ norm.params > hook.params_before

--------------------------------------------------------------------------
(***************************************************************************)
(* Properties of the subnet validation loop (checked under SpecLoop).      *)
(***************************************************************************)
\* positions in the calls of the last method where fn was called
At(fn) == {i \in DOMAIN loop.calls : loop.calls[i].fn = fn}

\* the evaluations of the last method: <<i, j>> with _evaluate_once entered at i
\* and returning at j
Evaluations ==
    {<<i, j>> \in At("_evaluate_once") \X At("return") :
        i < j /\ \A k \in At("return") : ~(i < k /\ k < j)}

Within(e, fn) == {k \in At(fn) : e[1] < k /\ k < e[2]}

MutatorCalls ==
    At("mutator.set_max_choices") \cup At("mutator.set_min_choices")
    \cup At("mutator.set_choices") \cup At("mutator.sample_choices")

SetChoicesCalls ==
    At("mutator.set_max_choices") \cup At("mutator.set_min_choices")
    \cup At("mutator.set_choices")

\* C13: in every _evaluate_once, when calibrate_sample_num > 0,
\* calibrate_bn_statistics(train_dataloader, calibrate_sample_num) is invoked
\* exactly once, before runner.model.eval(), before the subnet export and before
\* the resource estimation, and inside run after the mutator choices of the
\* subnet under evaluation have been set (no other evaluation in between); when
\* calibrate_sample_num <= 0 it is never invoked.
C13_CalibrateOncePerEvaluation ==
    /\ loop.calibrate_sample_num <= 0 => At("calibrate_bn_statistics") = {}
    /\ \A c \in At("calibrate_bn_statistics") : \E e \in Evaluations :
           c \in Within(e, "calibrate_bn_statistics")
    /\ loop.calibrate_sample_num > 0 =>
         \A e \in Evaluations :
            /\ Cardinality(Within(e, "calibrate_bn_statistics")) = 1
            /\ \A c \in Within(e, "calibrate_bn_statistics") :
                  /\ loop.calls[c].arg =
                         <<"runner.train_dataloader", loop.calibrate_sample_num>>
                  /\ \A k \in Within(e, "runner.model.eval")
                              \cup Within(e, "export_fix_subnet")
                              \cup Within(e, "estimator.estimate") : c < k
                  /\ Within(e, "runner.model.eval") # {}
                  /\ Within(e, "estimator.estimate") # {}
                  /\ (loop.op = "run" /\ ~loop.evaluate_fixed_subnet) =>
                        (e[1] - 1) \in SetChoicesCalls

\* run has evaluated two sampled subnets, each calibrated after its choices
C13_Witness ==
    /\ loop.op = "run" /\ ~loop.evaluate_fixed_subnet
    /\ loop.calibrate_sample_num > 0
    /\ loop.sample_kinds = <<"max", "random0">>
    /\ Cardinality(Evaluations) = 2
    /\ Cardinality(At("calibrate_bn_statistics")) = 2

\* C14: each _evaluate_once runs a validation iteration (run_iter) on every
\* batch of the validation dataloader, and the metrics it returns contain the
\* metrics computed by the evaluator in addition to the estimator's.
C14_ValidatesWithEvaluator ==
    loop.op = "_evaluate_once" =>
        /\ Cardinality(At("run_iter")) = loop.n_batches
        /\ At("evaluator.evaluate") # {}
        /\ \A k \in DOMAIN EvaluatorMetrics :
              k \in DOMAIN loop.metrics /\ loop.metrics[k] = EvaluatorMetrics[k]
        /\ \A k \in DOMAIN ResourceMetrics : k \in DOMAIN loop.metrics

FixSubnetKeys ==
    {"fix_subnet." \o k : k \in DOMAIN ResourceMetrics \cup DOMAIN EvaluatorMetrics}

\* C15: with evaluate_fixed_subnet, run performs exactly one evaluation, never
\* calls the mutator even when the model has sample_kinds, and every metric key
\* handed to the after_val_epoch hook carries the fix_subnet prefix.
C15_FixedSubnetOnly ==
    (loop.op = "run" /\ loop.evaluate_fixed_subnet) =>
        /\ Cardinality(At("_evaluate_once")) = 1
        /\ Cardinality(Evaluations) = 1
        /\ MutatorCalls = {}
        /\ DOMAIN loop.metrics # {}
        /\ DOMAIN loop.metrics \subseteq FixSubnetKeys

\* run with evaluate_fixed_subnet on a model that has sample kinds to offer
C15_Witness ==
    /\ loop.op = "run" /\ loop.evaluate_fixed_subnet
    /\ loop.has_sample_kinds /\ loop.sample_kinds = <<"max", "min">>
    /\ Cardinality(Evaluations) = 1
    /\ "fix_subnet.flops" \in DOMAIN loop.metrics

\* the prefixes under which run files the metrics of its evaluations
Prefixes ==
    IF loop.evaluate_fixed_subnet THEN {"fix_subnet"}
    ELSE {loop.sample_kinds[i] \o "_subnet" :
             i \in {j \in DOMAIN loop.sample_kinds : loop.sample_kinds[j] # "other"}}

\* C16: the metrics of every _evaluate_once contain the estimator's results; the
\* model handed to estimator.estimate is the subnet exported by
\* export_fix_subnet(model, slice_weight=True) when is_supernet and the unwrapped
\* runner model itself otherwise, and export_fix_subnet is never invoked when
\* is_supernet is False.
C16_EstimatesExportedSubnet ==
    /\ ~loop.is_supernet => At("export_fix_subnet") = {}
    /\ \A e \in Evaluations :
          /\ Cardinality(Within(e, "estimator.estimate")) = 1
          /\ \A k \in Within(e, "estimator.estimate") :
                IF loop.is_supernet
                THEN /\ loop.calls[k].arg = export_fix_subnet(Unwrapped(loop))
                     /\ \E x \in Within(e, "export_fix_subnet") :
                           /\ x < k
                           /\ loop.calls[x].arg = <<Unwrapped(loop), "slice_weight">>
                ELSE loop.calls[k].arg = Unwrapped(loop)
    /\ loop.op = "_evaluate_once" =>
          \A k \in DOMAIN ResourceMetrics :
              k \in DOMAIN loop.metrics /\ loop.metrics[k] = ResourceMetrics[k]
    /\ loop.op = "run" =>
          \A p \in Prefixes : \A k \in DOMAIN ResourceMetrics :
              /\ (p \o "." \o k) \in DOMAIN loop.metrics
              /\ loop.metrics[p \o "." \o k] = ResourceMetrics[k]

\* a distributed run whose model is not a supernet has estimated the wrapped
\* module itself, twice
C16_Witness ==
    /\ loop.op = "run" /\ loop.distributed /\ ~loop.is_supernet
    /\ Cardinality(Evaluations) = 2
    /\ \A k \in At("estimator.estimate") : loop.calls[k].arg = "runner.model.module"
    /\ "min_subnet.params" \in DOMAIN loop.metrics

--------------------------------------------------------------------------
(***************************************************************************)
(* Properties of str2class (checked under SpecStr).                        *)
(***************************************************************************)
\* the class a dotted name names
NamedClass(s) ==
    Class(SubSeq(s.parts, 1, Len(s.parts) - 1), s.parts[Len(s.parts)])

\* a name that names a class: a str of two or more components whose module can
\* be imported and has the last component as a type
NamesAClass(s) ==
    /\ s.is_str /\ Len(s.parts) > 1
    /\ SubSeq(s.parts, 1, Len(s.parts) - 1) \in Importable
    /\ s.parts[Len(s.parts)] \in
           {a \in DOMAIN Attributes(SubSeq(s.parts, 1, Len(s.parts) - 1)) :
               Attributes(SubSeq(s.parts, 1, Len(s.parts) - 1))[a] = "type"}

\* C17: str2class returns a result of the shape of its input: a list of n names
\* gives a list of n classes, a tuple of n names a tuple of n classes, a single
\* string the single class; element i of the result is the class named by
\* element i of the input, and an empty list / tuple gives an empty list / tuple.
C17_Str2ClassShape ==
    imported.op = "str2class" =>
        LET str_inputs == imported.str_inputs
            ret == imported.ret
        IN  IF str_inputs.type \in {"list", "tuple"}
            THEN (\A i \in DOMAIN str_inputs.value : NamesAClass(str_inputs.value[i]))
                 => /\ ret.status = "returned"
                    /\ ret.type = str_inputs.type
                    /\ Len(ret.value) = Len(str_inputs.value)
                    /\ \A i \in DOMAIN str_inputs.value :
                          ret.value[i] = NamedClass(str_inputs.value[i])
            ELSE NamesAClass(str_inputs.value)
                 => /\ ret.status = "returned"
                    /\ ret.type = "type"
                    /\ ret.value = NamedClass(str_inputs.value)

\* a tuple of two different names has given the tuple of their classes
C17_Witness ==
    /\ imported.op = "str2class"
    /\ imported.str_inputs.type = "tuple"
    /\ Len(imported.str_inputs.value) = 2
    /\ imported.str_inputs.value[1] = Str(<<"torch", "nn", "Linear">>)
    /\ imported.str_inputs.value[2] = Str(<<"mmrazor", "models", "BigNasConv2d">>)
    /\ imported.ret.status = "returned" /\ imported.ret.type = "tuple"
    /\ imported.ret.value[2] = Class(<<"mmrazor", "models">>, "BigNasConv2d")

--------------------------------------------------------------------------
(***************************************************************************)
(* Properties of from_float and of substitute_bn_class_map (checked under  *)
(* SpecFloat).                                                             *)
(***************************************************************************)
\* the current choice a module sees for one of its mutable attributes
CurrentMask(module, attr) == mutables[module.mutable_attrs[attr]]

QatMade == floats.qat.cls # "None"

\* C18: from_float registers on the QAT module every mutable attribute of the
\* float conv mod[0] under the same name and, for the classes with a BN, on the
\* QAT module's bn every mutable attribute of the float BN mod[1]; the mutables
\* are the same objects, so the QAT module sees every later change of choice.
C18_FromFloatKeepsMutables ==
    QatMade =>
        /\ floats.qat.mutable_attrs = floats.mod[1].mutable_attrs
        /\ \A a \in DOMAIN floats.mod[1].mutable_attrs :
              CurrentMask(floats.qat, a) = CurrentMask(floats.mod[1], a)
        /\ floats.qat.cls # "DynamicQConvReLU2d" =>
              /\ floats.qat.bn.mutable_attrs = floats.mod[2].mutable_attrs
              /\ \A a \in DOMAIN floats.mod[2].mutable_attrs :
                    CurrentMask(floats.qat.bn, a) = CurrentMask(floats.mod[2], a)

\* a DynamicQConvBn2d made of a float module with all three mutables, whose
\* num_features mutable has changed its choice since
C18_Witness ==
    /\ QatMade /\ floats.qat.cls = "DynamicQConvBn2d"
    /\ DOMAIN floats.qat.mutable_attrs = {"in_channels", "out_channels"}
    /\ DOMAIN floats.qat.bn.mutable_attrs = {"num_features"}
    /\ floats.event.ev = "set_choice"
    /\ CurrentMask(floats.qat.bn, "num_features") # Ones(MaxCh)
    /\ CurrentMask(floats.qat, "in_channels") # Ones(MaxCh)

\* C20: after a `with substitute_bn_class_map():` block exits normally
\* _BN_CLASS_MAP has exactly the keys and values it had when the block was
\* entered; inside a block keys 1, 2 and 3 map to DynamicBatchNorm1d/2d/3d and
\* the other keys are unchanged; this holds for nested blocks too, and for the
\* block DynamicQConvBn2d.__init__ opens.
C20_BnClassMapRestored ==
    /\ floats.event.ev \in {"exit", "from_float"} =>
          bn_class_map = floats.event.before
    /\ floats.event.ev = "enter" =>
          /\ \A d \in 1..3 : bn_class_map[d] = DynamicBnClassMap[d]
          /\ \A k \in DOMAIN floats.event.before \ (1..3) :
                bn_class_map[k] = floats.event.before[k]
          /\ DOMAIN bn_class_map = DOMAIN floats.event.before \cup (1..3)
    /\ QatMade /\ floats.qat.cls # "DynamicQConvReLU2d" =>
          floats.qat.bn.cls = "DynamicBatchNorm2d"

\* the outermost of two nested blocks has exited normally and torch's classes
\* are back
C20_Witness ==
    /\ floats.event.ev = "exit" /\ frames = <<>>
    /\ floats.event.before = TorchBnClassMap
    /\ bn_class_map = TorchBnClassMap
    /\ QatMade /\ floats.qat.cls = "DynamicQConvBnReLU2d"

--------------------------------------------------------------------------
(***************************************************************************)
(* Well-formedness of the exported conv (checked under Spec).              *)
(***************************************************************************)
\* C19: for every combination of current in-channel and out-channel masks
\* to_static_op builds a static conv whose in_channels and out_channels are
\* both divisible by its groups, a depthwise module with a mutable in_channels
\* included (groups = number of active input channels, out_channels = number
\* of active output channels).
C19_StaticConvWellFormed ==
    last.op = "to_static_op" =>
        /\ last.ret.status = "ok"
        /\ last.ret.conv.in_channels % last.ret.conv.groups = 0
        /\ last.ret.conv.out_channels % last.ret.conv.groups = 0

--------------------------------------------------------------------------
(***************************************************************************)
(* Properties of traverse_children (checked under SpecTree).               *)
(***************************************************************************)
\* the modules reachable from d through child dicts at any depth
RECURSIVE ReachableFrom(_, _)
ReachableFrom(h, seen) ==
    LET next == seen \cup UNION {{h.mods[i].children[n] : n \in DOMAIN h.mods[i].children} :
                                    i \in seen}
    IN  IF next = seen THEN seen ELSE ReachableFrom(h, next)

Reachable(h) == ReachableFrom(h, {h.d[n] : n \in DOMAIN h.d})

Traversed == tree.op = "traverse_children"

\* every dict of the tree as it was keeps its names; a static entry keeps its
\* identity and a dynamic one holds the static op made of it
OriginalDictsConverted ==
    Traversed =>
        \A owner \in 0..Len(tree.before.mods) :
            /\ DOMAIN Dict(tree, owner) = DOMAIN Dict(tree.before, owner)
            /\ \A n \in DOMAIN Dict(tree.before, owner) :
                  LET was == Dict(tree.before, owner)[n]
                      is == Dict(tree, owner)[n]
                  IN  IF IsDynamic(tree.before.mods[was])
                      THEN /\ ~IsDynamic(tree.mods[is])
                           /\ tree.mods[is].made_of = was
                      ELSE is = was

\* with dynamic ops only, whose static op is built of new static modules,
\* nothing dynamic stays reachable
NoContainerNoDynamicLeft ==
    (Traversed /\ \A i \in DOMAIN tree.before.mods :
                      tree.before.mods[i].kind # "dynamic_container") =>
        \A i \in Reachable(tree) : ~IsDynamic(tree.mods[i])

\* C21: after traverse_children(d) on the child dict of a finite acyclic module
\* tree no DynamicMixin instance is reachable from d through child dicts at any
\* depth, dynamic modules nested below a replaced module included; every
\* dynamic entry holds the result of its to_static_op(), entries that are not
\* dynamic keep their identity and every dict keeps its key set.
C21_NoDynamicReachable ==
    Traversed =>
        /\ \A i \in Reachable(tree) : ~IsDynamic(tree.mods[i])
        /\ DOMAIN tree.d = DOMAIN tree.before.d
        /\ \A n \in DOMAIN tree.before.d :
              IF IsDynamic(tree.before.mods[tree.before.d[n]])
              THEN tree.mods[tree.d[n]].made_of = tree.before.d[n]
              ELSE tree.d[n] = tree.before.d[n]

====
